---------------------------- MODULE Spec2Model ----------------------------
(***************************************************************************)
(* HwpMate: batch conversion of HWP/HWPX documents through the Hancom      *)
(* automation engine.  The model follows src/hwptopdf-hwpx_v4.py (PyQt6     *)
(* version): MainWindow on the UI thread, one ConversionWorker (QThread)    *)
(* per batch, one HWPConverter per worker, and the queued signals that      *)
(* carry the worker's events to the UI thread.                              *)
(***************************************************************************)
EXTENDS Integers, Sequences, FiniteSets, TLC

(***************************************************************************)
(* Bounds of the model.                                                    *)
(***************************************************************************)
\* batches (ConversionWorker objects) created in one run of the program
MaxBatches == 2
\* length of the pending file list (MainWindow.file_list)
MaxFiles == 2

Batches == 1..MaxBatches

(***************************************************************************)
(* Static tables of the program.                                           *)
(***************************************************************************)
\* HWP_PROGIDS, by position: 1 "HWPControl.HwpCtrl.1", 2 "HwpObject.HwpObject",
\* 3 "HWPFrame.HwpObject"
HWP_PROGIDS == <<"HWPControl.HwpCtrl.1", "HwpObject.HwpObject", "HWPFrame.HwpObject">>

NProgIds == Len(HWP_PROGIDS)

FORMAT_TYPES ==
    [PDF  |-> [ext |-> ".pdf",  save_format |-> "PDF"],
     HWPX |-> [ext |-> ".hwpx", save_format |-> "HWPX"],
     DOCX |-> [ext |-> ".docx", save_format |-> "OOXML"]]

Formats == {"PDF", "HWPX", "DOCX"}

SUPPORTED_EXTENSIONS == {".hwp", ".hwpx"}

(***************************************************************************)
(* Paths.  A path is a directory (sequence of names), a stem and an         *)
(* extension; a stem is a base name and the " (n)" suffixes appended to it: *)
(* "a (1)" is [base |-> "a", sfx |-> <<1>>].                                *)
(***************************************************************************)
Stem(b) == [base |-> b, sfx |-> <<>>]

MkPath(d, s, e) == [dir |-> d, stem |-> s, ext |-> e]

\* pathlib: Path("") is Path("."), the current directory
PathOfText(text) == IF text = <<>> THEN <<".">> ELSE text

\* Path.relative_to(folder).parent, for a file under folder
RelParent(dir, folder) == SubSeq(dir, Len(folder) + 1, Len(dir))

IsUnder(dir, folder) ==
    /\ Len(dir) >= Len(folder)
    /\ SubSeq(dir, 1, Len(folder)) = folder

(***************************************************************************)
(* The file system the model ranges over: a scanned root "in" with a        *)
(* subdirectory, and an output root "out".                                   *)
(***************************************************************************)
DirIn == <<"in">>
DirSub == <<"in", "sub">>
DirOut == <<"out">>

InA == MkPath(DirIn, Stem("a"), ".hwp")
InAx == MkPath(DirIn, Stem("a"), ".hwpx")
SubA == MkPath(DirSub, Stem("a"), ".hwp")
InTxt == MkPath(DirIn, Stem("readme"), ".txt")
InPdf == MkPath(DirIn, Stem("a"), ".pdf")
InPdf1 == MkPath(DirIn, [base |-> "a", sfx |-> <<1>>], ".pdf")
OutPdf == MkPath(DirOut, Stem("a"), ".pdf")

\* the order in which a directory scan returns the files (the OS's listing order)
ScanOrder == <<InA, InAx, InPdf, InPdf1, InTxt, SubA, OutPdf>>

InputFiles == {InA, InAx, SubA}

ExistingDirs == {DirIn, DirSub, DirOut, <<".">>}

(***************************************************************************)
(* ConversionTask (status: "Pending" 대기, "Running" 진행중, "Succeeded" 성공,  *)
(* "Failed" 실패; error <<>> is None).                                       *)
(***************************************************************************)
ConversionTask(input_file, output_file) ==
    [input_file |-> input_file, output_file |-> output_file,
     status |-> "Pending", error |-> <<>>]

(***************************************************************************)
(* MainWindow._collect_tasks.  The settings record holds what the method    *)
(* reads from the widgets.  The result is [err |-> <<>>, tasks |-> ...] or   *)
(* [err |-> <<message>>, tasks |-> <<>>] for a raised ValueError.             *)
(***************************************************************************)
\* variant of Glob: rglob whatever the include_sub box says
Glob_always_recursive(folder, ext, recursive, disk) ==
    LET Match(p) == /\ p \in disk
                    /\ p.ext = ext
                    /\ IsUnder(p.dir, folder)
    IN SelectSeq(ScanOrder, Match)

\* folder.glob(pattern) / folder.rglob(pattern) for pattern "*" + ext
Glob(folder, ext, recursive, disk) ==
    LET Match(p) == /\ p \in disk
                    /\ p.ext = ext
                    /\ IF recursive THEN IsUnder(p.dir, folder) ELSE p.dir = folder
    IN SelectSeq(ScanOrder, Match)

RECURSIVE ConcatGlobs(_, _, _, _)
ConcatGlobs(folder, patterns, recursive, disk) ==
    IF patterns = <<>> THEN <<>>
    ELSE Glob(folder, Head(patterns), recursive, disk)
         \o ConcatGlobs(folder, Tail(patterns), recursive, disk)

\* "if not output_folder": a pathlib.Path has no __bool__ and is always true
PathIsFalsy(path) == FALSE

\* variant of FolderTask: every output directly in the output folder
FolderTask_flat(input_file, folder, st, output_ext) ==
    IF st.same_location
    THEN ConversionTask(input_file, MkPath(input_file.dir, input_file.stem, output_ext))
    ELSE ConversionTask(input_file,
             MkPath(PathOfText(st.output_entry), input_file.stem, output_ext))

\* lines 2449-2460: the task of one scanned file
FolderTask(input_file, folder, st, output_ext) ==
    IF st.same_location
    THEN ConversionTask(input_file, MkPath(input_file.dir, input_file.stem, output_ext))
    ELSE ConversionTask(input_file,
             MkPath(PathOfText(st.output_entry) \o RelParent(input_file.dir, folder),
                    input_file.stem, output_ext))

\* lines 2466-2478: the task of one listed file
FileTask(input_file, st, output_ext) ==
    IF st.same_location
    THEN ConversionTask(input_file, MkPath(input_file.dir, input_file.stem, output_ext))
    ELSE ConversionTask(input_file,
             MkPath(PathOfText(st.output_entry), input_file.stem, output_ext))

\* variant of NoFiles: a planner without the check of line 2445
NoFiles_unchecked(input_files) == FALSE

\* line 2445: "if not input_files"
NoFiles(input_files) == input_files = <<>>

collect_tasks(st, disk) ==
    LET output_ext == FORMAT_TYPES[st.format].ext
        Fail(msg) == [err |-> <<msg>>, tasks |-> <<>>]
        needs_output == ~st.same_location /\ PathIsFalsy(PathOfText(st.output_entry))
    IN IF st.mode = "folder"
       THEN IF st.folder_entry = <<>> THEN Fail("select a folder")
            ELSE IF st.folder_entry \notin ExistingDirs THEN Fail("folder does not exist")
            ELSE LET patterns == IF st.format = "HWPX" THEN <<".hwp">>
                                 ELSE <<".hwp", ".hwpx">>
                     input_files == ConcatGlobs(st.folder_entry, patterns,
                                                st.include_sub, disk)
                 IN IF NoFiles(input_files) THEN Fail("no files to convert")
                    ELSE IF needs_output THEN Fail("select an output folder")
                    ELSE [err |-> <<>>,
                          tasks |-> [i \in 1..Len(input_files) |->
                                       FolderTask(input_files[i], st.folder_entry,
                                                  st, output_ext)]]
       ELSE IF st.file_list = <<>> THEN Fail("add files")
            ELSE IF needs_output THEN Fail("select an output folder")
            ELSE [err |-> <<>>,
                  tasks |-> [i \in 1..Len(st.file_list) |->
                               FileTask(st.file_list[i], st, output_ext)]]

(***************************************************************************)
(* MainWindow._adjust_output_paths: each task whose output exists on disk   *)
(* gets the first "stem (counter)" name that does not exist on disk.         *)
(***************************************************************************)
WithCounter(path, counter) ==
    [path EXCEPT !.stem = [base |-> path.stem.base,
                           sfx |-> Append(path.stem.sfx, counter)]]

\* variant of FirstFree: the first candidate name is taken without looking at the disk
FirstFree_unchecked(path, counter, disk) == WithCounter(path, counter)

RECURSIVE FirstFree(_, _, _)
FirstFree(path, counter, disk) ==
    IF WithCounter(path, counter) \notin disk
    THEN WithCounter(path, counter)
    ELSE FirstFree(path, counter + 1, disk)

AdjustOne(task, disk) ==
    IF task.output_file \in disk
    THEN [task EXCEPT !.output_file = FirstFree(task.output_file, 1, disk)]
    ELSE task

adjust_output_paths(tasks, disk) ==
    [i \in 1..Len(tasks) |-> AdjustOne(tasks[i], disk)]

(***************************************************************************)
(* State.                                                                   *)
(***************************************************************************)
VARIABLES
    \* MainWindow (UI thread)
    settings,         \* the widgets _collect_tasks reads: mode, format, include_sub,
                      \* same_location, overwrite, folder_entry, output_entry
    file_list,        \* self.file_list
    file_set,         \* self._file_set
    config,           \* self.config as last saved by _save_settings (<<>>: never saved)
    is_converting,    \* self.is_converting (start_btn is enabled iff it is FALSE)
    worker,           \* self.worker: a batch, or 0 for None
    ui_tasks,         \* self.tasks: the batch whose task list it is, or 0 for []
    cancel_dialog,    \* the confirmation box of _cancel_conversion is open
    ui_message,       \* the last warning box shown by _start_conversion (<<>>: none)
    queue,            \* queued signal deliveries waiting in the UI thread's event loop
    connected,        \* the workers whose signals are connected to MainWindow's slots
    next_batch,       \* the next ConversionWorker to be created
    loaded,           \* what load_config returned to MainWindow.__init__ ("pending":
                      \* no window: the process has not called it yet, or has ended)
    closing,          \* closeEvent: "no", "asked" (its confirmation box is open),
                      \* "waiting" (the UI thread is inside worker.wait(3000))
    drop_log,         \* NativeDropFilter: the calls made on the drop handle of the last
                      \* WM_DROPFILES message, in order
    \* HWPConverterGUI (the Tk version, src/unnamed/part_000), where it differs
    gui_cancel_requested, \* self.cancel_requested, a field of the GUI object
    progress_maximum,     \* self.progress_bar["maximum"]
    \* the configuration file (CONFIG_FILE) and its backup (.json.bak)
    config_file,      \* what is stored under CONFIG_FILE ("missing": no such file)
    config_readable,  \* CONFIG_FILE can be opened
    backup_file,      \* what is stored under the backup path
    \* the file system
    disk,             \* the files that exist
    \* ConversionWorker, per batch
    pc,               \* where the worker thread is in run()
    cancel_requested, \* self.cancel_requested
    tasks,            \* self.tasks (the list object shared with MainWindow.tasks)
    format_type,      \* self.format_type
    com_initialized,  \* self._com_initialized
    idx,              \* the task the loop is at (1-based)
    success_count,    \* success_count
    failed_tasks,     \* failed_tasks, as positions in tasks
    conv_err,         \* convert_file: the failure to return after closing the document
    exc,              \* run: the exception caught at line 1195 (<<>>: none)
    \* HWPConverter, per batch
    hwp,              \* converter.hwp: the ProgID position of the object held, 0 for None
    progid_used,      \* converter.progid_used (0 for None)
    is_initialized,   \* converter.is_initialized
    try_idx,          \* initialize: the ProgID being tried
    errors,           \* initialize: errors, one entry (the ProgID) per failed attempt
    \* the automation engine
    created,          \* automation objects created: <<batch, ProgID position>>
    quit_requested,   \* automation objects on which Quit was called
    \* history of each worker
    emitted,          \* the signals the worker emitted, in order
    cleanup_calls,    \* calls of converter.cleanup()
    cleanup_log,      \* the calls cleanup() made, in order, and whether each succeeded
    com_calls,        \* the CoInitialize and CoUninitialize calls made on the worker
                      \* thread, in order: by run() or by the adapter, and whether
                      \* each succeeded
    calls,            \* the engine calls of convert_file: task, call, whether it succeeded
    observed_at,      \* the task boundary at which the loop saw the cancel flag (0: none)
    final_cancel      \* the cancel flag as read after the loop ("unread" before)

window_vars == <<loaded, closing>>
tk_vars == <<gui_cancel_requested, progress_maximum>>
config_vars == <<config_file, config_readable, backup_file>>
ui_vars == <<settings, file_list, file_set, config, is_converting, worker, ui_tasks,
             cancel_dialog, ui_message, next_batch, window_vars, config_vars, tk_vars,
             drop_log>>
worker_vars == <<pc, cancel_requested, tasks, format_type, com_initialized, idx,
                 success_count, failed_tasks, conv_err, exc>>
converter_vars == <<hwp, progid_used, is_initialized, try_idx, errors>>
engine_vars == <<created, quit_requested>>
history_vars == <<emitted, cleanup_calls, cleanup_log, com_calls, calls, observed_at,
                  final_cancel>>
vars == <<ui_vars, queue, connected, disk, worker_vars, converter_vars, engine_vars,
          history_vars>>

(***************************************************************************)
(* Initial states: the window as constructed (MainWindow.__init__), with    *)
(* the widget values restored from a persisted configuration.                *)
(***************************************************************************)
Settings(mode, format, include_sub, same_location, overwrite, folder, output) ==
    [mode |-> mode, format |-> format, include_sub |-> include_sub,
     same_location |-> same_location, overwrite |-> overwrite,
     folder_entry |-> folder, output_entry |-> output]

InitRest ==
    /\ config = <<>>
    /\ is_converting = FALSE
    /\ worker = 0
    /\ ui_tasks = 0
    /\ cancel_dialog = FALSE
    /\ ui_message = <<>>
    /\ queue = <<>>
    /\ connected = {}
    /\ next_batch = 1
    /\ closing = "no"
    /\ drop_log = <<>>
    /\ gui_cancel_requested = FALSE
    /\ progress_maximum = 100
    /\ pc = [w \in Batches |-> "idle"]
    /\ cancel_requested = [w \in Batches |-> FALSE]
    /\ tasks = [w \in Batches |-> <<>>]
    /\ format_type = [w \in Batches |-> "PDF"]
    /\ com_initialized = [w \in Batches |-> FALSE]
    /\ idx = [w \in Batches |-> 1]
    /\ success_count = [w \in Batches |-> 0]
    /\ failed_tasks = [w \in Batches |-> <<>>]
    /\ conv_err = [w \in Batches |-> <<>>]
    /\ exc = [w \in Batches |-> <<>>]
    /\ hwp = [w \in Batches |-> 0]
    /\ progid_used = [w \in Batches |-> 0]
    /\ is_initialized = [w \in Batches |-> FALSE]
    /\ try_idx = [w \in Batches |-> 1]
    /\ errors = [w \in Batches |-> <<>>]
    /\ created = {}
    /\ quit_requested = {}
    /\ emitted = [w \in Batches |-> <<>>]
    /\ cleanup_calls = [w \in Batches |-> 0]
    /\ cleanup_log = [w \in Batches |-> <<>>]
    /\ com_calls = [w \in Batches |-> <<>>]
    /\ calls = [w \in Batches |-> <<>>]
    /\ observed_at = [w \in Batches |-> 0]
    /\ final_cancel = [w \in Batches |-> "unread"]

\* the window was constructed from a configuration file that holds an object
InitLoaded ==
    /\ loaded = "data"
    /\ config_file = "object"
    /\ config_readable = TRUE
    /\ backup_file = "missing"

\* the whole program: file mode, files are added by the user
Init ==
    /\ settings = Settings("files", "PDF", TRUE, TRUE, FALSE, <<>>, <<>>)
    /\ file_list = <<>>
    /\ file_set = {}
    /\ disk = {InA, InAx, SubA}
    /\ InitRest
    /\ InitLoaded

(***************************************************************************)
(* Signals.  A connected signal emitted on the worker thread is delivered   *)
(* to MainWindow's slot through the UI thread's event queue.  status_updated *)
(* and progress_updated are recorded in the worker's history only: their     *)
(* slots set the progress bar and the text of labels, widgets that are not   *)
(* part of the state modelled here.                                          *)
(***************************************************************************)
Ev(kind, text, cur, total, succ, failed) ==
    [kind |-> kind, text |-> text, cur |-> cur, total |-> total,
     succ |-> succ, failed |-> failed, detail |-> <<>>]

StatusEv(text) == Ev("status", text, 0, 0, 0, <<>>)
ProgressEv(cur, total) == Ev("progress", "", cur, total, 0, <<>>)
CompletedEv(succ, total, failed) == Ev("completed", "", 0, total, succ, failed)
\* error_occurred.emit(str(e)): the message is the exception's, part by part
ErrorEv(message) == [Ev("error", "", 0, 0, 0, <<>>) EXCEPT !.detail = message]
FinishedEv == Ev("finished", "", 0, 0, 0, <<>>)

Queued(w, evs) ==
    LET IsQueued(e) == e.kind \notin {"status", "progress"}
        kept == SelectSeq(evs, IsQueued)
    IN [i \in 1..Len(kept) |-> [w |-> w, ev |-> kept[i]]]

Emit(w, evs) ==
    /\ emitted' = [emitted EXCEPT ![w] = @ \o evs]
    /\ queue' = IF w \in connected THEN queue \o Queued(w, evs) ELSE queue

(***************************************************************************)
(* MainWindow._start_conversion, reached from the start button (enabled     *)
(* while not converting) and from the Ctrl+Return shortcut.                  *)
(***************************************************************************)
\* save_config: the file is rewritten with the settings object; a failure (the
\* file cannot be opened for writing) is logged and leaves it as it was
save_config(ok) ==
    /\ config_file' = IF ok /\ (config_file = "missing" \/ config_readable)
                      THEN "object" ELSE config_file
    /\ UNCHANGED <<config_readable, backup_file>>

Planned ==
    LET st == [mode |-> settings.mode, format |-> settings.format,
               include_sub |-> settings.include_sub,
               same_location |-> settings.same_location,
               overwrite |-> settings.overwrite,
               folder_entry |-> settings.folder_entry,
               output_entry |-> settings.output_entry,
               file_list |-> file_list]
        r == collect_tasks(st, disk)
    IN IF r.err # <<>> \/ settings.overwrite THEN r
       ELSE [r EXCEPT !.tasks = adjust_output_paths(r.tasks, disk)]

start_conversion(cap) ==
    /\ next_batch <= cap
    /\ ~cancel_dialog
    /\ IF Planned.err # <<>>
       THEN \* except ValueError: QMessageBox.warning
            /\ ui_message' = Planned.err
            /\ UNCHANGED <<settings, file_list, file_set, config, is_converting, worker,
                           ui_tasks, cancel_dialog, next_batch, window_vars,
                               config_vars, tk_vars, drop_log>>
            /\ UNCHANGED <<queue, connected, disk, worker_vars, converter_vars,
                           engine_vars, history_vars>>
       ELSE LET b == next_batch IN
            /\ tasks' = [tasks EXCEPT ![b] = Planned.tasks]
            /\ ui_tasks' = b
            /\ config' = settings
            /\ \E ok \in BOOLEAN : save_config(ok)
            /\ UNCHANGED <<window_vars, tk_vars, drop_log>>
            /\ is_converting' = TRUE
            /\ worker' = b
            /\ format_type' = [format_type EXCEPT ![b] = settings.format]
            /\ cancel_requested' = [cancel_requested EXCEPT ![b] = FALSE]
            /\ connected' = connected \cup {b}
            /\ pc' = [pc EXCEPT ![b] = "start"]
            /\ next_batch' = b + 1
            /\ UNCHANGED <<settings, file_list, file_set, cancel_dialog, ui_message>>
            /\ UNCHANGED <<queue, disk, com_initialized, idx, success_count,
                           failed_tasks, conv_err, exc>>
            /\ UNCHANGED <<converter_vars, engine_vars, history_vars>>

\* start_btn.clicked: the button is disabled by _set_converting_state(True)
click_start(cap) ==
    /\ ~is_converting
    /\ start_conversion(cap)

\* QShortcut("Ctrl+Return").activated: connected to _start_conversion directly
shortcut_start(cap) ==
    /\ start_conversion(cap)

(***************************************************************************)
(* MainWindow._cancel_conversion (cancel button, or Esc while converting):  *)
(* a confirmation box, then worker.cancel() on the current worker.           *)
(***************************************************************************)
cancel_conversion_ask ==
    /\ is_converting
    /\ ~cancel_dialog
    /\ cancel_dialog' = TRUE
    /\ UNCHANGED <<settings, file_list, file_set, config, is_converting, worker,
                   ui_tasks, ui_message, next_batch, window_vars, config_vars, tk_vars,
                   drop_log>>
    /\ UNCHANGED <<queue, connected, disk, worker_vars, converter_vars, engine_vars,
                   history_vars>>

cancel_conversion_reply(yes) ==
    /\ cancel_dialog
    /\ cancel_dialog' = FALSE
    /\ cancel_requested' = IF yes /\ worker # 0
                           THEN [cancel_requested EXCEPT ![worker] = TRUE]
                           ELSE cancel_requested
    /\ UNCHANGED <<settings, file_list, file_set, config, is_converting, worker,
                   ui_tasks, ui_message, next_batch, window_vars, config_vars, tk_vars,
                   drop_log>>
    /\ UNCHANGED <<queue, connected, disk, pc, tasks, format_type, com_initialized, idx,
                   success_count, failed_tasks, conv_err, exc>>
    /\ UNCHANGED <<converter_vars, engine_vars, history_vars>>

(***************************************************************************)
(* ConversionWorker.run, on the worker thread.                              *)
(***************************************************************************)
Total(w) == Len(tasks[w])

\* a call on the automation runtime, by run() or by the adapter
ComCall(op, by, ok) == [op |-> op, by |-> by, ok |-> ok]

\* lines 1127-1142 and the head of HWPConverter.initialize (lines 972-975):
\* CoInitialize on the worker thread (a failure is logged and leaves _com_initialized
\* False), converter = HWPConverter(), the first status, and the adapter's own
\* CoInitialize (a failure is logged and not remembered)
run_begin(w, coinit_ok, adapter_ok) ==
    /\ pc[w] = "start"
    /\ com_initialized' = [com_initialized EXCEPT ![w] = coinit_ok]
    /\ com_calls' = [com_calls EXCEPT ![w] =
           @ \o <<ComCall("CoInitialize", "run", coinit_ok),
                   ComCall("CoInitialize", "adapter", adapter_ok)>>]
    /\ success_count' = [success_count EXCEPT ![w] = 0]
    /\ failed_tasks' = [failed_tasks EXCEPT ![w] = <<>>]
    /\ hwp' = [hwp EXCEPT ![w] = 0]
    /\ progid_used' = [progid_used EXCEPT ![w] = 0]
    /\ is_initialized' = [is_initialized EXCEPT ![w] = FALSE]
    /\ try_idx' = [try_idx EXCEPT ![w] = 1]
    /\ errors' = [errors EXCEPT ![w] = <<>>]
    /\ Emit(w, <<StatusEv("connecting")>>)
    /\ pc' = [pc EXCEPT ![w] = "connect"]
    /\ UNCHANGED <<ui_vars, connected, disk, cancel_requested, tasks, format_type, idx,
                   conv_err, exc, engine_vars, cleanup_calls, cleanup_log, calls,
                   observed_at, final_cancel>>

\* variant of RecordError: only the latest failure is kept
RecordError_last_only(errs, progid) == <<progid>>

\* line 995: errors.append(f"{progid}: {str(e)}")
RecordError(errs, progid) == Append(errs, progid)

\* variant of AfterFailure: an initialize that returns instead of raising
AfterFailure_swallowed(last) == IF last THEN "loop" ELSE "connect"

\* lines 996-1000: continue with the next ProgID; after the last, raise
AfterFailure(last) == IF last THEN "except" ELSE "connect"

\* variant of Dispatched: progid_used is set once and not overwritten
Dispatched_first_kept(w, p) ==
    /\ hwp' = [hwp EXCEPT ![w] = p]
    /\ progid_used' = [progid_used EXCEPT ![w] = IF @ = 0 THEN p ELSE @]
    /\ created' = created \cup {<<w, p>>}

\* lines 980-981: the object and its ProgID are stored as soon as Dispatch returned
Dispatched(w, p) ==
    /\ hwp' = [hwp EXCEPT ![w] = p]
    /\ progid_used' = [progid_used EXCEPT ![w] = p]
    /\ created' = created \cup {<<w, p>>}

\* variant of FirstTask: a loop that starts at the second task
FirstTask_second(w) == IF Len(tasks[w]) > 1 THEN 2 ELSE 1

\* line 1148: enumerate(self.tasks) starts at the first task
FirstTask(w) == 1

\* HWPConverter.initialize, one ProgID of the loop: Dispatch, RegisterModule
\* (failure ignored), SetMessageBoxMode.  outcome: "dispatch_fail" (no object),
\* "config_fail" (object created, SetMessageBoxMode raised), "ok".
initialize_try(w, outcome) ==
    /\ pc[w] = "connect"
    /\ LET p == try_idx[w]
           made == outcome # "dispatch_fail"
           last == p = NProgIds
       IN /\ IF made THEN Dispatched(w, p) ELSE UNCHANGED <<hwp, progid_used, created>>
          /\ IF outcome = "ok"
             THEN /\ is_initialized' = [is_initialized EXCEPT ![w] = TRUE]
                  /\ Emit(w, <<StatusEv("connected")>>)
                  /\ idx' = [idx EXCEPT ![w] = FirstTask(w)]
                  /\ pc' = [pc EXCEPT ![w] = "loop"]
                  /\ UNCHANGED <<errors, try_idx, exc>>
             ELSE /\ errors' = [errors EXCEPT ![w] = RecordError(@, HWP_PROGIDS[p])]
                  /\ try_idx' = [try_idx EXCEPT ![w] = p + 1]
                  \* after the last ProgID: raise Exception(all errors)
                  /\ pc' = [pc EXCEPT ![w] = AfterFailure(last)]
                  /\ exc' = [exc EXCEPT ![w] = IF last THEN <<"connect">> \o errors'[w]
                                                ELSE @]
                  /\ UNCHANGED <<is_initialized, idx, emitted, queue>>
    /\ UNCHANGED <<ui_vars, connected, disk, cancel_requested, tasks, format_type,
                   com_initialized, success_count, failed_tasks, conv_err,
                   quit_requested, cleanup_calls, cleanup_log, com_calls, calls, observed_at,
                   final_cancel>>

\* variant of FailTask that forgets the failed list
FailTask_uncounted(w, reason) ==
    /\ tasks' = [tasks EXCEPT ![w][idx[w]].status = "Failed",
                              ![w][idx[w]].error = reason]
    /\ UNCHANGED failed_tasks

\* the task is set Failed without a conversion and the loop continues
FailTask(w, reason) ==
    /\ tasks' = [tasks EXCEPT ![w][idx[w]].status = "Failed",
                              ![w][idx[w]].error = reason]
    /\ failed_tasks' = [failed_tasks EXCEPT ![w] = Append(@, idx[w])]

\* variant of CancelObserved: a loop without the check of line 1149
CancelObserved_never(w) == FALSE

\* line 1149: the cancel flag as the loop reads it
CancelObserved(w) == cancel_requested[w]

\* variant of InputMissing: a loop without the check of line 1166
InputMissing_unchecked(w) == FALSE

\* line 1166: "if not task.input_file.exists()"
InputMissing(w) == tasks[w][idx[w]].input_file \notin disk

\* lines 1148-1174: one task boundary.  mkdir_ok: the output folder could be
\* created; exists: what task.input_file.exists() does ("raise": an OSError other
\* than not-found, which pathlib does not swallow).
run_task_begin(w, mkdir_ok, exists) ==
    /\ pc[w] = "loop"
    /\ idx[w] <= Total(w)
    /\ IF CancelObserved(w)
       THEN /\ Emit(w, <<StatusEv("cancelled")>>)
            /\ observed_at' = [observed_at EXCEPT ![w] = idx[w]]
            /\ pc' = [pc EXCEPT ![w] = "after"]
            /\ UNCHANGED <<tasks, failed_tasks, idx, exc>>
       ELSE /\ Emit(w, <<ProgressEv(idx[w] - 1, Total(w))>>)
            /\ UNCHANGED observed_at
            /\ IF ~mkdir_ok
               THEN /\ FailTask(w, <<"mkdir">>)
                    /\ idx' = [idx EXCEPT ![w] = @ + 1]
                    /\ UNCHANGED <<pc, exc>>
               ELSE IF exists = "raise"
               THEN /\ pc' = [pc EXCEPT ![w] = "except"]
                    /\ exc' = [exc EXCEPT ![w] = <<"exists">>]
                    /\ UNCHANGED <<tasks, failed_tasks, idx>>
               ELSE IF InputMissing(w)
               THEN /\ FailTask(w, <<"not found">>)
                    /\ idx' = [idx EXCEPT ![w] = @ + 1]
                    /\ UNCHANGED <<pc, exc>>
               ELSE /\ tasks' = [tasks EXCEPT ![w][idx[w]].status = "Running"]
                    /\ pc' = [pc EXCEPT ![w] = "open"]
                    /\ UNCHANGED <<failed_tasks, idx, exc>>
    /\ UNCHANGED <<ui_vars, connected, disk, cancel_requested, format_type,
                   com_initialized, success_count, conv_err, converter_vars,
                   engine_vars, cleanup_calls, cleanup_log, com_calls, calls, final_cancel>>

(***************************************************************************)
(* HWPConverter.convert_file, one engine call per step.                     *)
(***************************************************************************)
\* a call on self.hwp made for the task the loop is at
Call(w, op, ok) ==
    calls' = [calls EXCEPT ![w] = Append(@, [task |-> idx[w], op |-> op, ok |-> ok])]

\* variant of convert_open: a convert_file that lets the failure of Open propagate
convert_open_raising(w, ok) ==
    /\ pc[w] = "open"
    /\ pc' = [pc EXCEPT ![w] = IF ok THEN "save2" ELSE "except"]
    /\ exc' = [exc EXCEPT ![w] = IF ok THEN @ ELSE <<"open">>]
    /\ Call(w, "Open", ok)
    /\ UNCHANGED <<ui_vars, queue, connected, disk, cancel_requested, tasks, format_type,
                   com_initialized, idx, success_count, failed_tasks, conv_err,
                   converter_vars, engine_vars, emitted, cleanup_calls, cleanup_log, com_calls,
                   observed_at,
                   final_cancel>>

\* variant of convert_open: a convert_file that goes on to save whatever Open did
convert_open_unchecked(w, ok) ==
    /\ pc[w] = "open"
    /\ pc' = [pc EXCEPT ![w] = "save2"]
    /\ conv_err' = [conv_err EXCEPT ![w] = <<>>]
    /\ Call(w, "Open", ok)
    /\ UNCHANGED <<ui_vars, queue, connected, disk, cancel_requested, tasks, format_type,
                   com_initialized, idx, success_count, failed_tasks, exc, converter_vars,
                   engine_vars, emitted, cleanup_calls, cleanup_log, com_calls,
                   observed_at, final_cancel>>

\* self.hwp.Open(input, "", "forceopen:true")
convert_open(w, ok) ==
    /\ pc[w] = "open"
    /\ pc' = [pc EXCEPT ![w] = IF ok THEN "save2" ELSE "clear"]
    /\ conv_err' = [conv_err EXCEPT ![w] = IF ok THEN <<>> ELSE <<"open">>]
    /\ Call(w, "Open", ok)
    /\ UNCHANGED <<ui_vars, queue, connected, disk, cancel_requested, tasks, format_type,
                   com_initialized, idx, success_count, failed_tasks, exc, converter_vars,
                   engine_vars, emitted, cleanup_calls, cleanup_log, com_calls,
                   observed_at, final_cancel>>

\* self.hwp.SaveAs(output, save_format)
convert_save2(w, ok) ==
    /\ pc[w] = "save2"
    /\ pc' = [pc EXCEPT ![w] = IF ok THEN "clear" ELSE "save3"]
    /\ disk' = IF ok THEN disk \cup {tasks[w][idx[w]].output_file} ELSE disk
    /\ Call(w, "SaveAs2", ok)
    /\ UNCHANGED <<ui_vars, queue, connected, cancel_requested, tasks, format_type,
                   com_initialized, idx, success_count, failed_tasks, conv_err, exc,
                   converter_vars, engine_vars, emitted, cleanup_calls, cleanup_log, com_calls,
                   observed_at,
                   final_cancel>>

\* self.hwp.SaveAs(output, save_format, "")
convert_save3(w, ok) ==
    /\ pc[w] = "save3"
    /\ pc' = [pc EXCEPT ![w] = "clear"]
    /\ disk' = IF ok THEN disk \cup {tasks[w][idx[w]].output_file} ELSE disk
    /\ conv_err' = [conv_err EXCEPT ![w] = IF ok THEN <<>> ELSE <<"save2", "save3">>]
    /\ Call(w, "SaveAs3", ok)
    /\ UNCHANGED <<ui_vars, queue, connected, cancel_requested, tasks, format_type,
                   com_initialized, idx, success_count, failed_tasks, exc, converter_vars,
                   engine_vars, emitted, cleanup_calls, cleanup_log, com_calls,
                   observed_at, final_cancel>>

\* what convert_file returns once the document's Clear(option=1) was attempted: after
\* a failed Open or SaveAs the Clear is inside try/except pass and the failure is
\* returned; after a successful save the Clear at line 1052 is inside the outer try,
\* so its failure is caught at line 1056 and returned as the error
ConvertResult(err, clear_ok) ==
    IF err # <<>> THEN err
    ELSE IF clear_ok THEN <<>>
    ELSE <<"clear">>

\* variant of StatusAfterConvert: a failed task is put back in line
StatusAfterConvert_requeue(success) == IF success THEN "Succeeded" ELSE "Pending"

\* lines 1181-1185: the status the loop gives the task
StatusAfterConvert(success) == IF success THEN "Succeeded" ELSE "Failed"

\* self.hwp.Clear(option=1), the return of convert_file and lines 1181-1187.  When
\* the Clear of line 1052 raises, the except clause of line 1056 calls Clear once
\* more (line 1061) and swallows what that call does.
convert_clear(w, clear_ok) ==
    /\ pc[w] = "clear"
    /\ LET error == ConvertResult(conv_err[w], clear_ok)
           success == error = <<>>
       IN /\ tasks' = [tasks EXCEPT
                         ![w][idx[w]].status = StatusAfterConvert(success),
                         ![w][idx[w]].error = IF success THEN @ ELSE error]
          /\ success_count' = [success_count EXCEPT ![w] = IF success THEN @ + 1 ELSE @]
          /\ failed_tasks' = [failed_tasks EXCEPT
                                ![w] = IF success THEN @ ELSE Append(@, idx[w])]
    /\ conv_err' = [conv_err EXCEPT ![w] = <<>>]
    /\ idx' = [idx EXCEPT ![w] = @ + 1]
    /\ pc' = [pc EXCEPT ![w] = "loop"]
    /\ IF conv_err[w] = <<>> /\ ~clear_ok
       THEN \E again \in BOOLEAN :
               calls' = [calls EXCEPT
                           ![w] = @ \o <<[task |-> idx[w], op |-> "Clear", ok |-> FALSE],
                                         [task |-> idx[w], op |-> "Clear", ok |-> again]>>]
       ELSE Call(w, "Clear", clear_ok)
    /\ UNCHANGED <<ui_vars, queue, connected, disk, cancel_requested, format_type,
                   com_initialized, exc, converter_vars, engine_vars, emitted,
                   cleanup_calls, cleanup_log, com_calls, observed_at, final_cancel>>

\* variant of run_after_loop without the guard of line 1192
run_after_loop_unguarded(w) ==
    /\ \/ pc[w] = "after"
       \/ pc[w] = "loop" /\ idx[w] > Total(w)
    /\ Emit(w, <<ProgressEv(Total(w), Total(w)),
                 CompletedEv(success_count[w], Total(w), failed_tasks[w])>>)
    /\ final_cancel' = [final_cancel EXCEPT
                          ![w] = IF cancel_requested[w] THEN "set" ELSE "clear"]
    /\ pc' = [pc EXCEPT ![w] = "finally"]
    /\ UNCHANGED <<ui_vars, connected, disk, cancel_requested, tasks, format_type,
                   com_initialized, idx, success_count, failed_tasks, conv_err, exc,
                   converter_vars, engine_vars, cleanup_calls, cleanup_log, com_calls,
                   calls, observed_at>>

\* lines 1189-1193, after the loop ended (exhausted, or left by break): the final
\* progress event, and task_completed unless cancelled
run_after_loop(w) ==
    /\ \/ pc[w] = "after"
       \/ pc[w] = "loop" /\ idx[w] > Total(w)
    /\ Emit(w, IF cancel_requested[w]
               THEN <<ProgressEv(Total(w), Total(w))>>
               ELSE <<ProgressEv(Total(w), Total(w)),
                      CompletedEv(success_count[w], Total(w), failed_tasks[w])>>)
    /\ final_cancel' = [final_cancel EXCEPT
                          ![w] = IF cancel_requested[w] THEN "set" ELSE "clear"]
    /\ pc' = [pc EXCEPT ![w] = "finally"]
    /\ UNCHANGED <<ui_vars, connected, disk, cancel_requested, tasks, format_type,
                   com_initialized, idx, success_count, failed_tasks, conv_err, exc,
                   converter_vars, engine_vars, cleanup_calls, cleanup_log, com_calls,
                   calls, observed_at>>

\* variant of run_except: a run() whose cleanup is the last statement of the try
\* body instead of a finally clause
run_except_without_finally(w) ==
    /\ pc[w] = "except"
    /\ Emit(w, <<ErrorEv(exc[w])>>)
    /\ pc' = [pc EXCEPT ![w] = "returned"]
    /\ UNCHANGED <<ui_vars, connected, disk, cancel_requested, tasks, format_type,
                   com_initialized, idx, success_count, failed_tasks, conv_err, exc,
                   converter_vars, engine_vars, cleanup_calls, cleanup_log, com_calls, calls,
                   observed_at, final_cancel>>

\* lines 1195-1197: except Exception: error_occurred.emit
run_except(w) ==
    /\ pc[w] = "except"
    /\ Emit(w, <<ErrorEv(exc[w])>>)
    /\ pc' = [pc EXCEPT ![w] = "finally"]
    /\ UNCHANGED <<ui_vars, connected, disk, cancel_requested, tasks, format_type,
                   com_initialized, idx, success_count, failed_tasks, conv_err, exc,
                   converter_vars, engine_vars, cleanup_calls, cleanup_log, com_calls, calls,
                   observed_at, final_cancel>>

\* HWPConverter.cleanup: Clear(3) and Quit (each best effort) only when an object is
\* held and is_initialized; then CoUninitialize
\* (r says which of its three calls succeed; a call that raises is passed over)
cleanup(w, r) ==
    LET Did(op, ok) == [op |-> op, ok |-> ok]
        uninitialize == <<Did("CoUninitialize", r.uninit)>>
    IN /\ cleanup_calls' = [cleanup_calls EXCEPT ![w] = @ + 1]
       /\ IF hwp[w] # 0 /\ is_initialized[w]
          THEN /\ quit_requested' = quit_requested \cup {<<w, hwp[w]>>}
               /\ hwp' = [hwp EXCEPT ![w] = 0]
               /\ is_initialized' = [is_initialized EXCEPT ![w] = FALSE]
               /\ cleanup_log' = [cleanup_log EXCEPT ![w] =
                      @ \o <<Did("Clear(3)", r.clear), Did("Quit", r.quit)>>
                        \o uninitialize]
          ELSE /\ cleanup_log' = [cleanup_log EXCEPT ![w] = @ \o uninitialize]
               /\ UNCHANGED <<quit_requested, hwp, is_initialized>>

\* lines 1199-1211: finally: converter.cleanup(), whose last call is CoUninitialize,
\* then CoUninitialize if _com_initialized
run_finally(w, r) ==
    /\ pc[w] = "finally"
    /\ cleanup(w, r)
    /\ com_calls' = [com_calls EXCEPT ![w] =
           @ \o <<ComCall("CoUninitialize", "adapter", r.uninit)>>
             \o IF com_initialized[w]
                THEN <<ComCall("CoUninitialize", "run", r.run_uninit)>> ELSE <<>>]
    /\ pc' = [pc EXCEPT ![w] = "returned"]
    /\ UNCHANGED <<ui_vars, queue, connected, disk, cancel_requested, tasks, format_type,
                   com_initialized, idx, success_count, failed_tasks, conv_err, exc,
                   progid_used, try_idx, errors, created, emitted, calls, observed_at,
                   final_cancel>>

\* run() has returned: QThread emits finished
thread_finished(w) ==
    /\ pc[w] = "returned"
    /\ Emit(w, <<FinishedEv>>)
    /\ pc' = [pc EXCEPT ![w] = "done"]
    /\ UNCHANGED <<ui_vars, connected, disk, cancel_requested, tasks, format_type,
                   com_initialized, idx, success_count, failed_tasks, conv_err, exc,
                   converter_vars, engine_vars, cleanup_calls, cleanup_log, com_calls, calls,
                   observed_at, final_cancel>>

(***************************************************************************)
(* MainWindow's slots, run by the UI thread's event loop on the head of the *)
(* queue (also while the confirmation box of _cancel_conversion is open).    *)
(***************************************************************************)
\* _on_worker_finished: disconnecting self.worker's signals also discards their
\* deliveries still queued
on_worker_finished ==
    /\ is_converting' = FALSE
    /\ worker' = 0
    /\ connected' = IF worker # 0 THEN connected \ {worker} ELSE connected
    /\ queue' = LET Keep(d) == worker = 0 \/ d.w # worker
                IN SelectSeq(Tail(queue), Keep)

\* _on_task_completed and _on_error_occurred: a toast, a label and a dialog
on_result_shown ==
    /\ queue' = Tail(queue)
    /\ UNCHANGED <<is_converting, worker, connected>>

ui_dispatch ==
    /\ queue # <<>>
    /\ IF Head(queue).ev.kind = "finished" THEN on_worker_finished ELSE on_result_shown
    /\ UNCHANGED <<settings, file_list, file_set, config, ui_tasks, cancel_dialog,
                   ui_message, next_batch, window_vars, config_vars, tk_vars, drop_log>>
    /\ UNCHANGED <<disk, worker_vars, converter_vars, engine_vars, history_vars>>

(***************************************************************************)
(* The pending file list.                                                   *)
(***************************************************************************)
SeqToSet(q) == {q[i] : i \in 1..Len(q)}

\* _add_files (file dialog, or _on_native_files_dropped)
add_files(files) ==
    /\ ~cancel_dialog
    /\ LET IsNew(f) == f \notin file_set
           new_files == SelectSeq(files, IsNew)
       IN /\ Len(file_list) + Len(new_files) <= MaxFiles
          /\ file_list' = file_list \o new_files
          /\ file_set' = file_set \cup SeqToSet(new_files)
    /\ UNCHANGED <<settings, config, is_converting, worker, ui_tasks, cancel_dialog,
                   ui_message, next_batch, window_vars, config_vars, tk_vars>>
    /\ UNCHANGED <<queue, connected, disk, worker_vars, converter_vars, engine_vars,
                   history_vars>>

\* what the user may hand to _add_files in one drop or one file dialog
DropOrder == <<InA, InAx, SubA>>
Payloads == {SubSeq(DropOrder, 1, n) : n \in 1..Len(DropOrder)}

(***************************************************************************)
(* The program.  A session says what the environment does in a run: how     *)
(* many batches the user starts and which outcomes the automation runtime,   *)
(* the engine and the file system produce.                                    *)
(***************************************************************************)
InitOutcomes == {"dispatch_fail", "config_fail", "ok"}

\* the outcomes of the calls of cleanup: every call succeeds, or any of them raises
Released == [clear |-> TRUE, quit |-> TRUE, uninit |-> TRUE, run_uninit |-> TRUE]
ReleaseOutcomes == [clear : BOOLEAN, quit : BOOLEAN, uninit : BOOLEAN, run_uninit : {TRUE}]

WorkerStep(w, S) ==
    \/ \E ok \in S.coinit, adapter_ok \in S.adapter_coinit : run_begin(w, ok, adapter_ok)
    \/ \E outcome \in S.init : initialize_try(w, outcome)
    \/ \E mkdir_ok \in S.mkdir, exists \in S.exists : run_task_begin(w, mkdir_ok, exists)
    \/ \E ok \in S.open : convert_open(w, ok)
    \/ \E ok \in S.save2 : convert_save2(w, ok)
    \/ \E ok \in S.save3 : convert_save3(w, ok)
    \/ \E ok \in S.clear : convert_clear(w, ok)
    \/ run_after_loop(w)
    \/ run_except(w)
    \/ \E r \in S.release : run_finally(w, r)
    \/ thread_finished(w)

Program(S) ==
    \/ click_start(S.batches)
    \/ shortcut_start(S.batches)
    \/ cancel_conversion_ask
    \/ \E yes \in BOOLEAN : cancel_conversion_reply(yes)
    \/ ui_dispatch
    \/ \E files \in S.payloads : add_files(files) /\ UNCHANGED drop_log
    \/ \E w \in Batches : WorkerStep(w, S)

\* the user starts up to MaxBatches batches of one file; a ProgID may be
\* unregistered and the engine may be one that takes the 3-argument SaveAs only;
\* every other call succeeds
WholeSession ==
    [batches |-> MaxBatches, payloads |-> {<<InA>>},
     coinit |-> {TRUE}, adapter_coinit |-> {TRUE}, init |-> {"dispatch_fail", "ok"},
     mkdir |-> {TRUE}, exists |-> {"query"},
     open |-> {TRUE}, save2 |-> BOOLEAN, save3 |-> {TRUE}, clear |-> {TRUE},
     release |-> {Released}]

Next == Program(WholeSession)

Spec == Init /\ [][Next]_vars

\* one batch, in which every call the worker makes on the engine and on the file
\* system may fail (CoInitialize succeeds: its failures are those of ComSession)
BatchSession ==
    [batches |-> 1, payloads |-> Payloads,
     coinit |-> {TRUE}, adapter_coinit |-> {TRUE}, init |-> InitOutcomes,
     mkdir |-> BOOLEAN, exists |-> {"query", "raise"},
     open |-> BOOLEAN, save2 |-> BOOLEAN, save3 |-> BOOLEAN, clear |-> BOOLEAN,
     release |-> {Released}]

NextBatch == Program(BatchSession)

\* as Init, on a disk where the second file of the list may be gone
InitBatch ==
    /\ settings = Settings("files", "PDF", TRUE, TRUE, FALSE, <<>>, <<>>)
    /\ file_list = <<>>
    /\ file_set = {}
    /\ disk \in {{InA, InAx, SubA}, {InA, SubA}}
    /\ InitRest
    /\ InitLoaded

SpecBatch == InitBatch /\ [][NextBatch]_vars

(***************************************************************************)
(* Planning alone: one press of start, from every combination of the        *)
(* widgets' values, pending file list and disk content below.                 *)
(***************************************************************************)
\* files whose presence on disk varies between the initial states
InputsOnDisk == {InA, InAx, SubA}
OutputsOnDisk == {InPdf, InPdf1, OutPdf}

\* the pending file lists: distinct files the user added, in any order
FileLists ==
    {q \in UNION {[1..n -> InputFiles] : n \in 0..MaxFiles} :
        \A i, j \in DOMAIN q : i # j => q[i] # q[j]}

InitPlan ==
    /\ settings \in {Settings(m, f, sub, same, over, folder, out) :
                       m \in {"folder", "files"}, f \in Formats, sub \in BOOLEAN,
                       same \in BOOLEAN, over \in BOOLEAN,
                       folder \in {<<>>, DirIn, <<"gone">>},
                       out \in {<<>>, DirOut}}
    /\ file_list \in FileLists
    /\ file_set = SeqToSet(file_list)
    /\ disk \in {ins \cup outs \cup {InTxt} :
                   ins \in SUBSET InputsOnDisk, outs \in SUBSET OutputsOnDisk}
    /\ InitRest
    /\ InitLoaded

NextPlan ==
    \/ click_start(1)
    \/ shortcut_start(1)

SpecPlan == InitPlan /\ [][NextPlan]_vars

(***************************************************************************)
(* Vocabulary of the properties.                                            *)
(***************************************************************************)
\* the automation objects on which Quit has not been requested
LiveHandles == created \ quit_requested

HandlesOf(w) == {h \in created : h[1] = w}

\* the worker thread of batch w exists: started, and run() not yet left
ThreadRuns(w) == pc[w] \notin {"idle", "done"}

Count(w, kind) ==
    Cardinality({i \in DOMAIN emitted[w] : emitted[w][i].kind = kind})

Notices(w) ==
    Cardinality({i \in DOMAIN emitted[w] :
                   emitted[w][i] = StatusEv("cancelled")})

Terminal(t) == t.status \in {"Succeeded", "Failed"}

TerminalCount(w) == Cardinality({i \in DOMAIN tasks[w] : Terminal(tasks[w][i])})

\* initialize() returned normally
ConnectSucceeded(w) == StatusEv("connected") \in SeqToSet(emitted[w])

(***************************************************************************)
(* C1.  At every moment at most one engine handle is live in the process:   *)
(* of the automation objects created so far, at most one has not had Quit    *)
(* requested on it.                                                          *)
(***************************************************************************)
C1_AtMostOneLiveHandle == Cardinality(LiveHandles) <= 1

(***************************************************************************)
(* C2.  At most one worker thread exists at any time, and while a worker     *)
(* thread exists the window is in its converting state (so that a start      *)
(* request is refused).                                                      *)
(***************************************************************************)
C2_OneBatchAtATime ==
    /\ Cardinality({w \in Batches : ThreadRuns(w)}) <= 1
    /\ \A w \in Batches : ThreadRuns(w) => is_converting

(***************************************************************************)
(* C3.  converter.cleanup() is called exactly once per batch: never twice,   *)
(* and it has been called exactly when run() has left its finally clause,     *)
(* whichever way the loop ended; the finished signal is emitted only after   *)
(* it; and no Open or SaveAs is issued once cleanup has been called.          *)
(***************************************************************************)
C3_CleanupOnce ==
    \A w \in Batches :
        /\ cleanup_calls[w] <= 1
        /\ cleanup_calls[w] = 1 <=> pc[w] \in {"returned", "done"}
        /\ Count(w, "finished") > 0 => cleanup_calls[w] = 1

C3_NoCallAfterCleanup ==
    \A w \in Batches :
        cleanup_calls[w] > 0 =>
            /\ pc'[w] \notin {"open", "save2", "save3"}
            /\ ~ \E ok \in BOOLEAN :
                    convert_open(w, ok) \/ convert_save2(w, ok) \/ convert_save3(w, ok)

C3_CleanupExactlyOnce == []C3_CleanupOnce /\ [][C3_NoCallAfterCleanup]_vars

\* a batch that ended by an unexpected exception after the engine was connected:
\* cleanup ran once and shut the engine down
C3_Witness ==
    /\ pc[1] = "done"
    /\ exc[1] = <<"exists">>
    /\ cleanup_calls[1] = 1
    /\ HandlesOf(1) \cap quit_requested # {}

(***************************************************************************)
(* C4.  A batch creates at most one engine handle, and every handle it        *)
(* created has had Quit requested on it when its worker has finished.          *)
(***************************************************************************)
C4_HandlesReleased ==
    \A w \in Batches :
        /\ Cardinality(HandlesOf(w)) <= 1
        /\ pc[w] = "done" => HandlesOf(w) \subseteq quit_requested

(***************************************************************************)
(* C5.  At every task boundary and after the loop, success_count plus the    *)
(* length of failed_tasks is the number of tasks processed (the tasks with a  *)
(* terminal status); after a loop that ran to its end this is the number of   *)
(* planned tasks, after a cancelled loop the number of tasks before the       *)
(* boundary at which the flag was seen; a completion event carries counts     *)
(* that add up to its total.                                                   *)
(***************************************************************************)
Settled(w) == success_count[w] + Len(failed_tasks[w])

C5_CountsAddUp ==
    \A w \in Batches :
        /\ pc[w] \in {"loop", "after"} =>
              /\ Settled(w) = idx[w] - 1
              /\ Settled(w) = TerminalCount(w)
        /\ final_cancel[w] # "unread" =>
              Settled(w) = IF observed_at[w] = 0 THEN Total(w) ELSE observed_at[w] - 1
        /\ \A i \in DOMAIN emitted[w] :
              emitted[w][i].kind = "completed" =>
                  /\ emitted[w][i].total = Total(w)
                  /\ emitted[w][i].succ + Len(emitted[w][i].failed) = Total(w)

\* a batch of two tasks ran to completion with one success and one failure
C5_Witness ==
    /\ pc[1] = "done"
    /\ Count(1, "completed") = 1
    /\ success_count[1] = 1
    /\ Len(failed_tasks[1]) = 1

(***************************************************************************)
(* C6.  For a batch that connected and left its loop without an exception:   *)
(* at most one completion event; exactly one if the cancel flag was not set   *)
(* when the loop was left; if it was set, a cancellation notice and no         *)
(* completion event.                                                           *)
(***************************************************************************)
C6_CompletionOrNotice ==
    \A w \in Batches :
        /\ Count(w, "completed") <= 1
        /\ final_cancel[w] = "clear" => Count(w, "completed") = 1
        /\ final_cancel[w] = "set" =>
              /\ Count(w, "completed") = 0
              /\ Notices(w) >= 1

(***************************************************************************)
(* C7.  The cancel flag is acted on only at task boundaries.  A task in       *)
(* flight is carried to a terminal status whatever the flag; once the flag is *)
(* set, no task other than the one in flight changes; and from the boundary   *)
(* at which the loop saw the flag on, the tasks before it are terminal and     *)
(* the tasks from it on are Pending.                                            *)
(***************************************************************************)
InFlight == {"open", "save2", "save3", "clear"}

C7_AfterObservation ==
    \A w \in Batches :
        observed_at[w] > 0 =>
            \A i \in DOMAIN tasks[w] :
                IF i < observed_at[w]
                THEN Terminal(tasks[w][i])
                ELSE tasks[w][i].status = "Pending"

C7_Step ==
    \A w \in Batches :
        /\ pc[w] \in InFlight =>
              /\ pc'[w] \in InFlight \cup {"loop"}
              /\ pc'[w] = "loop" => Terminal(tasks'[w][idx[w]])
        /\ cancel_requested[w] /\ pc[w] \notin InFlight => tasks'[w] = tasks[w]
        /\ cancel_requested[w] /\ pc[w] \in InFlight =>
              \A i \in DOMAIN tasks[w] : i # idx[w] => tasks'[w][i] = tasks[w][i]

C7_CancelAtBoundaries == []C7_AfterObservation /\ [][C7_Step]_vars

\* the flag was seen at the second boundary: the first task was converted, the
\* second never started
C7_Witness ==
    /\ pc[1] = "done"
    /\ observed_at[1] = 2
    /\ tasks[1][1].status = "Succeeded"
    /\ tasks[1][2].status = "Pending"

Rank(status) ==
    CASE status = "Pending" -> 0
      [] status = "Running" -> 1
      [] status \in {"Succeeded", "Failed"} -> 2

C9_Step ==
    \A w \in Batches :
        pc[w] # "idle" =>
            /\ DOMAIN tasks'[w] = DOMAIN tasks[w]
            /\ \A i \in DOMAIN tasks[w] :
                  /\ Rank(tasks'[w][i].status) >= Rank(tasks[w][i].status)
                  /\ Terminal(tasks[w][i]) => tasks'[w][i] = tasks[w][i]
            /\ tasks'[w] # tasks[w] =>
                  /\ pc[w] \in {"loop", "clear"}
                  /\ ui_vars' = ui_vars

C9_StatusMonotonic == [][C9_Step]_vars

\* the first task is Failed with its error detail while the second is converting
C9_Witness ==
    /\ Len(tasks[1]) = 2
    /\ tasks[1][1].status = "Failed"
    /\ tasks[1][1].error # <<>>
    /\ tasks[1][2].status = "Running"

(***************************************************************************)
(* C10.  After planning with overwrite disallowed, no two tasks of the       *)
(* batch have the same output path.                                           *)
(***************************************************************************)
C10_OutputsUnique ==
    \A w \in Batches :
        (pc[w] # "idle" /\ ~config.overwrite) =>
            \A i, j \in DOMAIN tasks[w] :
                i # j => tasks[w][i].output_file # tasks[w][j].output_file

(***************************************************************************)
(* Vocabulary of the planning properties.                                   *)
(***************************************************************************)
\* what _collect_tasks reads: the widgets and the pending file list
PlanInput ==
    [mode |-> settings.mode, format |-> settings.format,
     include_sub |-> settings.include_sub, same_location |-> settings.same_location,
     overwrite |-> settings.overwrite, folder_entry |-> settings.folder_entry,
     output_entry |-> settings.output_entry, file_list |-> file_list]

\* the input extensions a directory scan looks for, by target format
InputExts(format) == IF format = "HWPX" THEN {".hwp"} ELSE {".hwp", ".hwpx"}

\* the files a scan of root has to return
Matching(root, format, include_sub) ==
    {f \in disk : /\ f.ext \in InputExts(format)
                  /\ IF include_sub THEN IsUnder(f.dir, root) ELSE f.dir = root}

\* no worker was ever started
NothingStarted ==
    /\ \A w \in Batches : pc[w] = "idle" /\ tasks[w] = <<>>
    /\ ~is_converting
    /\ worker = 0
    /\ created = {}
    /\ next_batch = 1

(***************************************************************************)
(* C11.  After planning, each task's output path is its computed path if     *)
(* overwrite is allowed or the computed path is not on disk; otherwise it is  *)
(* the computed path with " (n)" appended to the stem, for the smallest       *)
(* n >= 1 whose path is not on disk.  (The output paths are thereby a          *)
(* function of the inputs and the disk.)                                       *)
(***************************************************************************)
C11_SmallestFreeName ==
    \A w \in Batches :
        pc[w] # "idle" =>
            LET computed == collect_tasks(PlanInput, disk).tasks IN
            /\ Len(tasks[w]) = Len(computed)
            /\ \A i \in DOMAIN tasks[w] :
                  LET out == tasks[w][i].output_file
                      comp == computed[i].output_file
                  IN IF settings.overwrite \/ comp \notin disk
                     THEN out = comp
                     ELSE \E n \in 1..(Cardinality(disk) + 1) :
                             /\ out = WithCounter(comp, n)
                             /\ out \notin disk
                             /\ \A k \in 1..(n - 1) : WithCounter(comp, k) \in disk

\* a.pdf and a (1).pdf are on disk and a task was given a (2).pdf
C11_Witness ==
    /\ pc[1] # "idle"
    /\ {InPdf, InPdf1} \subseteq disk
    /\ \E i \in DOMAIN tasks[1] :
          tasks[1][i].output_file = MkPath(DirIn, [base |-> "a", sfx |-> <<2>>], ".pdf")

(***************************************************************************)
(* C18.  With nothing to convert (directory mode: no root chosen, or no file  *)
(* of the format's input extensions where the scan looks; file mode: empty    *)
(* list) a press of start shows a warning and changes nothing else: no         *)
(* worker, no connection, not converting, task list and saved settings as      *)
(* before.                                                                      *)
(***************************************************************************)
NoInput ==
    IF settings.mode = "folder"
    THEN \/ settings.folder_entry = <<>>
         \/ Matching(settings.folder_entry, settings.format, settings.include_sub) = {}
    ELSE file_list = <<>>

C18_Step ==
    NoInput =>
        /\ ui_message' # <<>>
        /\ pc' = pc
        /\ is_converting' = is_converting
        /\ worker' = worker
        /\ tasks' = tasks
        /\ ui_tasks' = ui_tasks
        /\ created' = created
        /\ config' = config

C18_ValidationBeforeStart ==
    [](NoInput => NothingStarted) /\ [][C18_Step]_vars

\* start was pressed on a folder without a matching file
C18_Witness ==
    /\ settings.mode = "folder"
    /\ settings.folder_entry = DirIn
    /\ NoInput
    /\ ui_message = <<"no files to convert">>
    /\ NothingStarted

(***************************************************************************)
(* C19.  With the same-location box unchecked and an empty output entry no    *)
(* batch is started: no task list, no worker, no connection.                   *)
(***************************************************************************)
C19_OutputRequired ==
    (~settings.same_location /\ settings.output_entry = <<>>) => NothingStarted

(***************************************************************************)
(* C20.  In directory mode the planned inputs are exactly the files of the    *)
(* format's input extensions that are direct children of the root             *)
(* (include_sub off) or anywhere under it (include_sub on), one task each.     *)
(***************************************************************************)
C20_DirectoryScan ==
    \A w \in Batches :
        (pc[w] # "idle" /\ settings.mode = "folder") =>
            LET wanted == Matching(settings.folder_entry, settings.format,
                                   settings.include_sub)
            IN /\ \A i \in DOMAIN tasks[w] : tasks[w][i].input_file \in wanted
               /\ \A f \in wanted :
                     Cardinality({i \in DOMAIN tasks[w] : tasks[w][i].input_file = f}) = 1

\* a recursive scan planned the file of the subdirectory next to one of the root
C20_Witness ==
    /\ pc[1] # "idle"
    /\ settings.mode = "folder"
    /\ settings.include_sub
    /\ \E i, j \in DOMAIN tasks[1] :
          /\ tasks[1][i].input_file = SubA
          /\ tasks[1][j].input_file = InA

(***************************************************************************)
(* Vocabulary of the engine-call properties.                                *)
(***************************************************************************)
\* the engine calls convert_file made for task k of batch w, in order
CallsOf(w, k) ==
    LET ForTask(c) == c.task = k
    IN SelectSeq(calls[w], ForTask)

Made(w, k, op, ok) ==
    \E i \in DOMAIN CallsOf(w, k) : CallsOf(w, k)[i].op = op /\ CallsOf(w, k)[i].ok = ok

\* convert_file has returned for task k
Returned(w, k) == Terminal(tasks[w][k])

\* every ProgID was tried and failed
AllFailed(w) == try_idx[w] > NProgIds

(***************************************************************************)
(* C12.  For every task: a 3-argument SaveAs is made only directly after a    *)
(* failed 2-argument SaveAs (so never after a successful one); when the        *)
(* 2-argument call failed and the 3-argument call succeeded the task is        *)
(* Succeeded; when both failed the task is Failed with both messages.          *)
(***************************************************************************)
C12_SaveFallback ==
    \A w \in Batches : \A k \in DOMAIN tasks[w] :
        LET L == CallsOf(w, k) IN
        /\ \A i \in DOMAIN L :
              L[i].op = "SaveAs3" =>
                  /\ i > 1
                  /\ L[i - 1].op = "SaveAs2"
                  /\ ~L[i - 1].ok
        /\ Made(w, k, "SaveAs2", TRUE) => ~ \E ok \in BOOLEAN : Made(w, k, "SaveAs3", ok)
        /\ Returned(w, k) =>
              /\ Made(w, k, "SaveAs3", TRUE) => tasks[w][k].status = "Succeeded"
              /\ Made(w, k, "SaveAs3", FALSE) =>
                    /\ tasks[w][k].status = "Failed"
                    /\ tasks[w][k].error = <<"save2", "save3">>

(***************************************************************************)
(* C13.  Once initialize() has returned: the ProgIDs before the one recorded  *)
(* in progid_used are exactly the failed attempts, in order; the object held  *)
(* is the one created for progid_used; no object was created for a later       *)
(* ProgID; and no further ProgID is tried afterwards.                           *)
(***************************************************************************)
C13_Connected ==
    \A w \in Batches :
        ConnectSucceeded(w) =>
            /\ progid_used[w] = Len(errors[w]) + 1
            /\ errors[w] = SubSeq(HWP_PROGIDS, 1, progid_used[w] - 1)
            /\ try_idx[w] = progid_used[w]
            /\ <<w, progid_used[w]>> \in created
            /\ is_initialized[w] => hwp[w] = progid_used[w]
            /\ \A h \in HandlesOf(w) : h[2] <= progid_used[w]
            /\ pc[w] \notin {"start", "connect"}

C13_NoLaterAttempt ==
    \A w \in Batches :
        ConnectSucceeded(w) =>
            /\ created' = created
            /\ try_idx'[w] = try_idx[w]
            /\ progid_used'[w] = progid_used[w]
            /\ errors'[w] = errors[w]

C13_ConnectFallback == []C13_Connected /\ [][C13_NoLaterAttempt]_vars

\* the first two ProgIDs failed, the third connected
C13_Witness ==
    /\ ConnectSucceeded(1)
    /\ is_initialized[1]
    /\ Len(errors[1]) = 2
    /\ progid_used[1] = 3
    /\ hwp[1] = 3

(***************************************************************************)
(* C14.  When every ProgID has failed, initialize() has raised: the exception *)
(* (and the error event made from it) carries one diagnostic per ProgID, all  *)
(* of them, in the order tried; initialize() did not return and the converter *)
(* is not initialized.                                                         *)
(***************************************************************************)
C14_AllDiagnostics ==
    \A w \in Batches :
        AllFailed(w) =>
            /\ errors[w] = HWP_PROGIDS
            /\ exc[w] = <<"connect">> \o HWP_PROGIDS
            /\ ~is_initialized[w]
            /\ ~ConnectSucceeded(w)
            /\ pc[w] \in {"except", "finally", "returned", "done"}
            /\ \A i \in DOMAIN emitted[w] :
                  emitted[w][i].kind = "error" =>
                      emitted[w][i].detail = <<"connect">> \o HWP_PROGIDS

\* the error event of a batch in which every ProgID failed
C14_Witness ==
    /\ AllFailed(1)
    /\ \E i \in DOMAIN emitted[1] :
          /\ emitted[1][i].kind = "error"
          /\ Len(emitted[1][i].detail) = 1 + NProgIds

(***************************************************************************)
(* C15.  When every ProgID has failed the batch does no work: no engine call  *)
(* of convert_file, every task Pending, no completion event; and when the      *)
(* worker has finished, exactly one error event was emitted and cleanup ran.   *)
(***************************************************************************)
C15_ConnectFailureIsFatal ==
    \A w \in Batches :
        AllFailed(w) =>
            /\ calls[w] = <<>>
            /\ pc[w] \notin InFlight
            /\ \A k \in DOMAIN tasks[w] : tasks[w][k].status = "Pending"
            /\ Count(w, "completed") = 0
            /\ Count(w, "error") <= 1
            /\ pc[w] = "done" =>
                  /\ Count(w, "error") = 1
                  /\ cleanup_calls[w] = 1

\* a batch of two tasks ended by the connection failure
C15_Witness ==
    /\ pc[1] = "done"
    /\ AllFailed(1)
    /\ Len(tasks[1]) = 2
    /\ Count(1, "error") = 1
    /\ cleanup_calls[1] = 1

(***************************************************************************)
(* C16.  For every task for which Open was called: once convert_file has      *)
(* returned, its last engine call is a Clear; the result is the one the Open   *)
(* and SaveAs calls determined, whatever the Clear did (a successful save      *)
(* gives Succeeded without error detail); and convert_file raises nothing.     *)
(***************************************************************************)
C16_CloseIsBestEffort ==
    \A w \in Batches :
        /\ exc[w] # <<>> => exc[w][1] \in {"connect", "exists"}
        /\ \A k \in DOMAIN tasks[w] :
              (Returned(w, k) /\ CallsOf(w, k) # <<>>) =>
                  LET L == CallsOf(w, k)
                      saved == Made(w, k, "SaveAs2", TRUE) \/ Made(w, k, "SaveAs3", TRUE)
                  IN /\ L[1].op = "Open"
                     /\ L[Len(L)].op = "Clear"
                     /\ saved => /\ tasks[w][k].status = "Succeeded"
                                 /\ tasks[w][k].error = <<>>
                     /\ ~saved => tasks[w][k].status = "Failed"

(***************************************************************************)
(* Drop interception: NativeDropFilter.nativeEventFilter on WM_DROPFILES.   *)
(* A dropped directory is the path whose name is the directory's, without    *)
(* extension: in/sub is [dir |-> <<"in">>, stem |-> "sub", ext |-> ""].        *)
(***************************************************************************)
\* entries of a drop payload
MaxDrop == 3

FolderSub == MkPath(DirIn, Stem("sub"), "")

\* Path(f).is_dir()
is_dir(f) == f.ext = "" /\ Append(f.dir, f.stem.base) \in ExistingDirs

\* What a call of shell32 on the drop handle does in one message: every call
\* succeeds (at = -1), or the call at position at (0: the count query, i: the
\* query of the i-th path) fails, by raising or by returning 0.
NoFault == [at |-> -1, raise |-> FALSE]

Faults(hDrop) == {NoFault} \cup [at : 0..Len(hDrop), raise : BOOLEAN]

\* line 1366: the number of paths DragQueryFileW(hDrop, 0xFFFFFFFF, None, 0) returns
FileCount(hDrop, fault) == IF fault.at = 0 THEN 0 ELSE Len(hDrop)

\* the last index whose query returned (the loop ends at an exception)
LastQueried(hDrop, fault) ==
    IF fault.raise THEN fault.at - 1 ELSE FileCount(hDrop, fault)

\* line 1381: DragFinish is reached when no statement of the try raised
Finished(hDrop, fault) == ~fault.raise

\* _get_dropped_files: the paths the drop handle holds, queried by index; a path
\* is kept when its query returned a length above 0, and the paths read before an
\* exception are returned
get_dropped_files(hDrop, fault) ==
    LET Read(i) == i # fault.at
        read == SelectSeq([i \in 1..LastQueried(hDrop, fault) |-> i], Read)
    IN [k \in 1..Len(read) |-> hDrop[read[k]]]

\* the calls _get_dropped_files makes on the handle: ret is the count, then 1 for
\* a path read and 0 for none, and -1 for a call that raised
DropCalls(hDrop, fault) ==
    LET Did(op, index, ret) == [op |-> op, index |-> index, ret |-> ret]
        count == IF fault.at = 0 /\ fault.raise
                 THEN <<Did("DragQueryFileW", -1, -1)>>
                 ELSE <<Did("DragQueryFileW", -1, FileCount(hDrop, fault))>>
        asked == IF fault.raise /\ fault.at >= 1 THEN fault.at
                 ELSE LastQueried(hDrop, fault)
        paths == [i \in 1..asked |->
                     Did("DragQueryFileW", i,
                         IF i # fault.at THEN 1 ELSE IF fault.raise THEN -1 ELSE 0)]
    IN count \o paths
             \o IF Finished(hDrop, fault) THEN <<Did("DragFinish", -1, 0)>> ELSE <<>>

\* lines 1335-1342: supported files as they are, directories replaced by the
\* supported files found under them
RECURSIVE ValidFiles(_, _)
ValidFiles(dropped_files, files_on_disk) ==
    IF dropped_files = <<>> THEN <<>>
    ELSE LET f == Head(dropped_files)
             found == IF f.ext \in SUPPORTED_EXTENSIONS THEN <<f>>
                      ELSE IF is_dir(f)
                      THEN ConcatGlobs(Append(f.dir, f.stem.base), <<".hwp", ".hwpx">>,
                                       TRUE, files_on_disk)
                      ELSE <<>>
         IN found \o ValidFiles(Tail(dropped_files), files_on_disk)

\* nativeEventFilter, files_dropped_callback = MainWindow._on_native_files_dropped
native_drop(hDrop, fault) ==
    LET dropped_files == get_dropped_files(hDrop, fault)
        valid_files == ValidFiles(dropped_files, disk)
    IN /\ drop_log' = DropCalls(hDrop, fault)
       /\ IF dropped_files # <<>> /\ valid_files # <<>>
          THEN add_files(valid_files)
          ELSE UNCHANGED <<settings, file_list, file_set, config, is_converting, worker,
                           ui_tasks, cancel_dialog, ui_message, next_batch, window_vars,
                           config_vars, tk_vars, queue, connected, disk, worker_vars,
                           converter_vars, engine_vars, history_vars>>

\* what a user can drop: files that exist, and the subdirectory
DropEntries == {InA, InAx, InTxt, SubA, FolderSub}

RawPayloads == UNION {[1..n -> DropEntries] : n \in 1..MaxDrop}

NextDrop ==
    \E hDrop \in RawPayloads :
        /\ \A i \in DOMAIN hDrop : is_dir(hDrop[i]) \/ hDrop[i] \in disk
        /\ native_drop(hDrop, NoFault)

\* the window as constructed, on any of the disks
InitDrop ==
    /\ settings = Settings("files", "PDF", TRUE, TRUE, FALSE, <<>>, <<>>)
    /\ file_list = <<>>
    /\ file_set = {}
    /\ disk \in {ins \cup outs \cup {InTxt} :
                   ins \in SUBSET InputsOnDisk, outs \in SUBSET OutputsOnDisk}
    /\ InitRest
    /\ InitLoaded

SpecDrop == InitDrop /\ [][NextDrop]_vars

\* drops of the files and the subdirectory of the disk of Init, in which one call
\* on the drop handle may fail
FaultEntries == {InA, InAx, FolderSub}

NextDropFault ==
    \E hDrop \in UNION {[1..n -> FaultEntries] : n \in 1..MaxDrop} :
        \E fault \in Faults(hDrop) : native_drop(hDrop, fault)

SpecDropFault == Init /\ [][NextDropFault]_vars

(***************************************************************************)
(* C17.  After any number of drops the pending file list holds only files     *)
(* with a supported extension, no directory and no unsupported file, and no    *)
(* path twice.                                                                  *)
(***************************************************************************)
C17_DropAddsEachFileOnce ==
    /\ \A i \in DOMAIN file_list :
          /\ file_list[i].ext \in SUPPORTED_EXTENSIONS
          /\ file_list[i] \in disk
    /\ \A i, j \in DOMAIN file_list : i # j => file_list[i] # file_list[j]

(***************************************************************************)
(* C21.  For every planned task, before the collision adjustment: with the   *)
(* same-location box checked the output is inputDir/stem+targetExt;           *)
(* otherwise in directory mode it is outputRoot/(the input's directory         *)
(* relative to the scanned root)/stem+targetExt and in file mode               *)
(* outputRoot/stem+targetExt; targetExt is FORMAT_TYPES' extension of the      *)
(* chosen format.  (A task the adjustment renamed has the rule's path with a   *)
(* counter appended to the stem.)                                               *)
(***************************************************************************)
TargetExt == FORMAT_TYPES[settings.format].ext

OutputRoot == PathOfText(settings.output_entry)

RulePath(input) ==
    IF settings.same_location
    THEN MkPath(input.dir, input.stem, TargetExt)
    ELSE IF settings.mode = "folder"
    THEN MkPath(OutputRoot \o SubSeq(input.dir, Len(settings.folder_entry) + 1,
                                     Len(input.dir)),
                input.stem, TargetExt)
    ELSE MkPath(OutputRoot, input.stem, TargetExt)

C21_OutputPathRule ==
    \A w \in Batches :
        pc[w] # "idle" =>
            \A i \in DOMAIN tasks[w] :
                LET rule == RulePath(tasks[w][i].input_file)
                    out == tasks[w][i].output_file
                IN /\ out.ext = TargetExt
                   /\ IF settings.overwrite \/ rule \notin disk
                      THEN out = rule
                      ELSE \E n \in 1..(Cardinality(disk) + 1) : out = WithCounter(rule, n)

\* a recursive scan with an output folder: in/sub/a.hwp is planned as out/sub/a.pdf
C21_Witness ==
    /\ pc[1] # "idle"
    /\ settings.mode = "folder"
    /\ ~settings.same_location
    /\ settings.format = "PDF"
    /\ \E i \in DOMAIN tasks[1] :
          /\ tasks[1][i].input_file = SubA
          /\ tasks[1][i].output_file = MkPath(<<"out", "sub">>, Stem("a"), ".pdf")

(***************************************************************************)
(* The configuration file.  What is stored under a path is "missing" (no     *)
(* file), "object" (a JSON object), "non_object" (JSON, but not an object),   *)
(* "bad_json" (UTF-8 text that is not JSON) or "bad_utf8" (bytes that are not *)
(* UTF-8 text, so not JSON either).                                            *)
(***************************************************************************)
Contents == {"object", "non_object", "bad_json", "bad_utf8"}

\* the exception the try body of load_config raises ("none": it returns or falls
\* through): open() on a file that cannot be opened, f.read() inside json.load on
\* bytes that are not UTF-8, json.load on text that is not JSON
LoadRaises ==
    IF config_file = "missing" THEN "none"
    ELSE IF ~config_readable THEN "PermissionError"
    ELSE IF config_file = "bad_utf8" THEN "UnicodeDecodeError"
    ELSE IF config_file = "bad_json" THEN "JSONDecodeError"
    ELSE "none"

\* the except clause that takes the exception: "except json.JSONDecodeError" (line
\* 932), then "except Exception" (line 941)
Handler(e) ==
    IF e = "JSONDecodeError" THEN "backup"
    ELSE IF e \in {"UnicodeDecodeError", "PermissionError", "FileExistsError"} THEN "log"
    ELSE "propagate"

\* CONFIG_FILE.rename(backup_path): on Windows, the platform of the program, rename
\* raises FileExistsError when the target exists
RenameRaises == IF backup_file # "missing" THEN "FileExistsError" ELSE "none"

\* load_config, called by MainWindow.__init__ (line 1722)
load_config ==
    /\ loaded = "pending"
    /\ LET e == LoadRaises IN
       IF e = "none"
       THEN /\ loaded' = IF config_file = "object" THEN "data" ELSE "defaults"
            /\ UNCHANGED <<config_file, config_readable, backup_file>>
       ELSE IF Handler(e) = "backup"
       THEN /\ loaded' = "defaults"
            /\ IF RenameRaises = "none"
               THEN /\ backup_file' = config_file
                    /\ config_file' = "missing"
                    /\ UNCHANGED config_readable
               ELSE \* except Exception: pass
                    UNCHANGED <<config_file, config_readable, backup_file>>
       ELSE IF Handler(e) = "log"
       THEN /\ loaded' = "defaults"
            /\ UNCHANGED <<config_file, config_readable, backup_file>>
       ELSE /\ loaded' = "raised"
            /\ UNCHANGED <<config_file, config_readable, backup_file>>
    /\ UNCHANGED <<settings, file_list, file_set, config, is_converting, worker, ui_tasks,
                   cancel_dialog, ui_message, next_batch, closing, tk_vars, drop_log>>
    /\ UNCHANGED <<queue, connected, disk, worker_vars, converter_vars, engine_vars,
                   history_vars>>

\* MainWindow._toggle_theme: the theme (a widget property, not part of this state)
\* is switched and the configuration saved at once
toggle_theme(ok) ==
    /\ loaded \in {"data", "defaults"}
    /\ save_config(ok)
    /\ UNCHANGED window_vars
    /\ UNCHANGED <<settings, file_list, file_set, config, is_converting, worker, ui_tasks,
                   cancel_dialog, ui_message, next_batch, tk_vars, drop_log>>
    /\ UNCHANGED <<queue, connected, disk, worker_vars, converter_vars, engine_vars,
                   history_vars>>

(***************************************************************************)
(* MainWindow.closeEvent.  While a conversion runs it asks first; on Yes it   *)
(* sets the cancel flag of the current worker and waits for it, 3 seconds at  *)
(* most.  Then the configuration is saved, the window closes and with it the  *)
(* process ends (loaded is "pending" again).                                   *)
(***************************************************************************)
\* lines 2641-2646: the confirmation box opens
close_event_ask ==
    /\ loaded # "pending"
    /\ is_converting
    /\ closing = "no"
    /\ ~cancel_dialog
    /\ closing' = "asked"
    /\ UNCHANGED <<settings, file_list, file_set, config, is_converting, worker, ui_tasks,
                   cancel_dialog, ui_message, next_batch, loaded, config_vars, tk_vars,
                   drop_log>>
    /\ UNCHANGED <<queue, connected, disk, worker_vars, converter_vars, engine_vars,
                   history_vars>>

\* variant of close_event_reply: a window that shuts the engine down itself
close_event_reply_quitting(yes) ==
    /\ closing = "asked"
    /\ closing' = IF yes THEN "waiting" ELSE "no"
    /\ quit_requested' = IF yes /\ worker # 0 /\ hwp[worker] # 0
                         THEN quit_requested \cup {<<worker, hwp[worker]>>}
                         ELSE quit_requested
    /\ cancel_requested' = IF yes /\ worker # 0
                           THEN [cancel_requested EXCEPT ![worker] = TRUE]
                           ELSE cancel_requested
    /\ UNCHANGED <<settings, file_list, file_set, config, is_converting, worker, ui_tasks,
                   cancel_dialog, ui_message, next_batch, loaded, config_vars, tk_vars,
                   drop_log>>
    /\ UNCHANGED <<queue, connected, disk, pc, tasks, format_type, com_initialized, idx,
                   success_count, failed_tasks, conv_err, exc>>
    /\ UNCHANGED <<converter_vars, created, history_vars>>

\* lines 2648-2654: No: event.ignore(); Yes: worker.cancel(), worker.wait(3000)
close_event_reply(yes) ==
    /\ closing = "asked"
    /\ closing' = IF yes THEN "waiting" ELSE "no"
    /\ cancel_requested' = IF yes /\ worker # 0
                           THEN [cancel_requested EXCEPT ![worker] = TRUE]
                           ELSE cancel_requested
    /\ UNCHANGED <<settings, file_list, file_set, config, is_converting, worker, ui_tasks,
                   cancel_dialog, ui_message, next_batch, loaded, config_vars, tk_vars,
                   drop_log>>
    /\ UNCHANGED <<queue, connected, disk, pc, tasks, format_type, com_initialized, idx,
                   success_count, failed_tasks, conv_err, exc>>
    /\ UNCHANGED <<converter_vars, engine_vars, history_vars>>

\* lines 2656-2665: the wait is over (the thread finished, or 3 seconds passed), or
\* no conversion was running: save_config(self.config), event.accept()
close_event(ok) ==
    /\ loaded # "pending"
    /\ \/ closing = "waiting"
       \/ closing = "no" /\ ~is_converting /\ ~cancel_dialog
    /\ save_config(ok)
    /\ loaded' = "pending"
    /\ closing' = "no"
    /\ UNCHANGED <<settings, file_list, file_set, config, is_converting, worker, ui_tasks,
                   cancel_dialog, ui_message, next_batch, tk_vars, drop_log>>
    /\ UNCHANGED <<queue, connected, disk, worker_vars, converter_vars, engine_vars,
                   history_vars>>

\* somebody else (an editor, another program) changes what is stored under
\* CONFIG_FILE
file_damaged(content) ==
    /\ config_file # "missing"
    /\ config_file' = content
    /\ UNCHANGED <<window_vars, config_readable, backup_file>>
    /\ UNCHANGED <<settings, file_list, file_set, config, is_converting, worker, ui_tasks,
                   cancel_dialog, ui_message, next_batch, tk_vars, drop_log>>
    /\ UNCHANGED <<queue, connected, disk, worker_vars, converter_vars, engine_vars,
                   history_vars>>

NextConfig ==
    \/ load_config
    \/ \E ok \in BOOLEAN : toggle_theme(ok)
    \/ \E ok \in BOOLEAN : close_event(ok)
    \/ \E content \in Contents : file_damaged(content)

\* a launch of the program, with any configuration file and any backup in the
\* user's home directory
InitConfig ==
    /\ loaded = "pending"
    /\ config_file \in Contents \cup {"missing"}
    /\ config_readable \in BOOLEAN
    /\ config_file = "missing" => config_readable
    /\ backup_file \in Contents \cup {"missing"}
    /\ settings = Settings("files", "PDF", TRUE, TRUE, FALSE, <<>>, <<>>)
    /\ file_list = <<>>
    /\ file_set = {}
    /\ disk = {}
    /\ InitRest

SpecConfig == InitConfig /\ [][NextConfig]_vars

(***************************************************************************)
(* C22.  load_config never raises to its caller; for a missing, unreadable,   *)
(* non-JSON or non-object configuration file it returns the defaults; and a   *)
(* readable configuration file that is not valid JSON is renamed to the        *)
(* backup path, so that after loading nothing is stored under CONFIG_FILE.     *)
(***************************************************************************)
C22_Step ==
    (loaded = "pending" /\ loaded' # "pending") =>
        /\ loaded' \in {"data", "defaults"}
        /\ (config_file # "object" \/ ~config_readable) => loaded' = "defaults"
        /\ (config_readable /\ config_file \in {"bad_json", "bad_utf8"}) =>
              /\ config_file' = "missing"
              /\ backup_file' = config_file

C22_LoadConfig == [][C22_Step]_vars

(***************************************************************************)
(* The program with its window's close button: one batch of one file, every  *)
(* call succeeding except that a ProgID may be unregistered.  The UI thread    *)
(* handles input while no box is open and is not inside wait(); it delivers    *)
(* queued signals also while a box is open; nothing runs once the process has  *)
(* ended.                                                                       *)
(***************************************************************************)
CloseSession ==
    [batches |-> 1, payloads |-> {<<InA>>, <<InA, SubA>>},
     coinit |-> {TRUE}, adapter_coinit |-> {TRUE}, init |-> {"dispatch_fail", "ok"},
     mkdir |-> {TRUE}, exists |-> {"query"},
     open |-> BOOLEAN, save2 |-> {TRUE}, save3 |-> {TRUE}, clear |-> {TRUE},
     release |-> {Released}]

ProcessRuns == loaded # "pending"

NextClose ==
    \/ ProcessRuns /\ closing = "no" /\ click_start(CloseSession.batches)
    \/ ProcessRuns /\ closing = "no" /\ shortcut_start(CloseSession.batches)
    \/ ProcessRuns /\ closing = "no" /\ cancel_conversion_ask
    \/ ProcessRuns /\ closing = "no" /\ \E yes \in BOOLEAN : cancel_conversion_reply(yes)
    \/ ProcessRuns /\ closing = "no"
          /\ \E files \in CloseSession.payloads : add_files(files)
          /\ UNCHANGED drop_log
    \/ ProcessRuns /\ closing # "waiting" /\ ui_dispatch
    \/ ProcessRuns /\ \E w \in Batches : WorkerStep(w, CloseSession)
    \/ close_event_ask
    \/ \E yes \in BOOLEAN : close_event_reply(yes)
    \/ \E ok \in BOOLEAN : close_event(ok)

SpecClose == Init /\ [][NextClose]_vars

(***************************************************************************)
(* C23.  Every operation on the automation runtime and on the engine handle   *)
(* of a batch (CoInitialize, Dispatch, RegisterModule, SetMessageBoxMode,      *)
(* Open, SaveAs, Clear, Quit, CoUninitialize) is a step of that batch's        *)
(* worker thread: a step in which any of them happens is taken while the       *)
(* thread is inside run(), and it leaves alone everything the UI thread        *)
(* writes; so no step of the UI thread (start, cancel, signal delivery,        *)
(* window close) performs one.                                                  *)
(***************************************************************************)
\* what the runtime and engine operations of batch w change
EngineState(w) ==
    <<com_initialized[w], hwp[w], progid_used[w], is_initialized[w], try_idx[w],
      HandlesOf(w), HandlesOf(w) \cap quit_requested, calls[w], cleanup_calls[w]>>

\* where run() makes such operations
EngineSteps == {"start", "connect", "open", "save2", "save3", "clear", "finally"}

C23_Step ==
    \A w \in Batches :
        EngineState(w)' # EngineState(w) =>
            /\ pc[w] \in EngineSteps
            /\ ui_vars' = ui_vars
            /\ cancel_requested' = cancel_requested
            /\ connected' = connected
            /\ \A v \in Batches \ {w} : pc'[v] = pc[v]

C23_EngineOnWorkerThread == [][C23_Step]_vars

\* the window is closing, the UI thread waits, and the worker has converted its
\* file and shut the engine down
C23_Witness ==
    /\ closing = "waiting"
    /\ cancel_requested[1]
    /\ calls[1] # <<>>
    /\ HandlesOf(1) \cap quit_requested # {}

(***************************************************************************)
(* The Tk version (src/unnamed/part_000): HWPConverterGUI on the UI thread,  *)
(* _conversion_worker on a threading.Thread per batch.  Planning is the same  *)
(* algorithm (formats PDF and HWPX); the worker reaches the UI through         *)
(* root.after(0, callback), the callbacks waiting in queue.  Batch w's thread  *)
(* is where pc[w] says; self.tasks as the thread reads it is tasks[w].          *)
(***************************************************************************)
\* what the Tk worker never touches, and what only the PyQt version has
TkGuiRest == <<settings, file_list, file_set, config, worker, ui_tasks, ui_message,
               next_batch, window_vars, config_vars>>
QtOnly == <<connected, cancel_requested, com_initialized, failed_tasks, conv_err,
            try_idx, errors, observed_at, final_cancel, drop_log, com_calls>>

RestoreEv == Ev("restore", "", 0, 0, 0, <<>>)
ResultEv(succ, total) == Ev("result", "", 0, total, succ, <<>>)

\* root.after(0, callback): _update_status, _update_progress, _schedule_show_result,
\* _schedule_show_error, _schedule_restore_ui
Schedule(w, evs) ==
    /\ emitted' = [emitted EXCEPT ![w] = @ \o evs]
    /\ queue' = queue \o Queued(w, evs)

\* _start_conversion (lines 554-577); the start button is disabled while converting
tk_start_conversion ==
    /\ ~is_converting
    /\ ~cancel_dialog
    /\ next_batch <= MaxBatches
    /\ IF Planned.err # <<>>
       THEN /\ ui_message' = Planned.err
            /\ UNCHANGED <<settings, file_list, file_set, config, is_converting, worker,
                           ui_tasks, cancel_dialog, next_batch, window_vars, config_vars,
                           tk_vars, drop_log>>
            /\ UNCHANGED <<queue, connected, disk, worker_vars, converter_vars,
                           engine_vars, history_vars>>
       ELSE LET b == next_batch IN
            /\ tasks' = [tasks EXCEPT ![b] = Planned.tasks]
            /\ ui_tasks' = b
            /\ config' = settings
            /\ \E ok \in BOOLEAN : save_config(ok)
            /\ is_converting' = TRUE
            /\ pc' = [pc EXCEPT ![b] = "start"]
            /\ next_batch' = b + 1
            /\ UNCHANGED <<settings, file_list, file_set, worker, cancel_dialog,
                           ui_message, window_vars, tk_vars, drop_log>>
            /\ UNCHANGED <<queue, connected, disk, cancel_requested, format_type,
                           com_initialized, idx, success_count, failed_tasks, conv_err,
                           exc, converter_vars, engine_vars, history_vars>>

\* _cancel_conversion (lines 616-619): askyesno opens; the cancel button is enabled
\* while converting
tk_cancel_ask ==
    /\ is_converting
    /\ ~cancel_dialog
    /\ cancel_dialog' = TRUE
    /\ UNCHANGED <<TkGuiRest, is_converting, tk_vars, drop_log>>
    /\ UNCHANGED <<queue, connected, disk, worker_vars, converter_vars, engine_vars,
                   history_vars>>

\* ... and is answered: on Yes self.cancel_requested = True
tk_cancel_reply(yes) ==
    /\ cancel_dialog
    /\ cancel_dialog' = FALSE
    /\ gui_cancel_requested' = IF yes THEN TRUE ELSE gui_cancel_requested
    /\ UNCHANGED <<TkGuiRest, is_converting, progress_maximum, drop_log>>
    /\ UNCHANGED <<queue, connected, disk, worker_vars, converter_vars, engine_vars,
                   history_vars>>

\* the format radio buttons (lines 337-350), not disabled while converting
tk_select_format(f) ==
    /\ ~cancel_dialog
    /\ settings.format # f
    /\ settings' = [settings EXCEPT !.format = f]
    /\ UNCHANGED <<file_list, file_set, config, is_converting, worker, ui_tasks,
                   cancel_dialog, ui_message, next_batch, window_vars, config_vars,
                   tk_vars, drop_log>>
    /\ UNCHANGED <<queue, connected, disk, worker_vars, converter_vars, engine_vars,
                   history_vars>>

\* the Tk event loop runs the next callback: restore is _set_converting_state(False),
\* the others show a dialog or set the text of a label
tk_dispatch ==
    /\ queue # <<>>
    /\ queue' = Tail(queue)
    /\ is_converting' = IF Head(queue).ev.kind = "restore" THEN FALSE ELSE is_converting
    /\ UNCHANGED <<TkGuiRest, cancel_dialog, tk_vars, drop_log>>
    /\ UNCHANGED <<connected, disk, worker_vars, converter_vars, engine_vars,
                   history_vars>>

\* _conversion_worker, lines 623-629
tk_worker_begin(w) ==
    /\ pc[w] = "start"
    /\ success_count' = [success_count EXCEPT ![w] = 0]
    /\ hwp' = [hwp EXCEPT ![w] = 0]
    /\ progid_used' = [progid_used EXCEPT ![w] = 0]
    /\ is_initialized' = [is_initialized EXCEPT ![w] = FALSE]
    /\ Schedule(w, <<StatusEv("connecting")>>)
    /\ pc' = [pc EXCEPT ![w] = "connect"]
    /\ UNCHANGED <<TkGuiRest, is_converting, cancel_dialog, tk_vars, QtOnly>>
    /\ UNCHANGED <<disk, tasks, format_type, idx, exc, engine_vars, cleanup_calls,
                   cleanup_log, com_calls, calls>>

\* lines 630-636: converter.initialize() connects with ProgID p (0: every ProgID
\* failed and it raises), the status, and self.progress_bar["maximum"] = total
tk_initialize(w, p) ==
    /\ pc[w] = "connect"
    /\ IF p # 0
       THEN /\ hwp' = [hwp EXCEPT ![w] = p]
            /\ progid_used' = [progid_used EXCEPT ![w] = p]
            /\ is_initialized' = [is_initialized EXCEPT ![w] = TRUE]
            /\ created' = created \cup {<<w, p>>}
            /\ Schedule(w, <<StatusEv("connected")>>)
            /\ progress_maximum' = Total(w)
            /\ idx' = [idx EXCEPT ![w] = 1]
            /\ pc' = [pc EXCEPT ![w] = "loop"]
            /\ UNCHANGED exc
       ELSE /\ exc' = [exc EXCEPT ![w] = <<"connect">>]
            /\ pc' = [pc EXCEPT ![w] = "except"]
            /\ UNCHANGED <<hwp, progid_used, is_initialized, created, emitted, queue,
                           progress_maximum, idx>>
    /\ UNCHANGED <<TkGuiRest, is_converting, cancel_dialog, gui_cancel_requested, QtOnly>>
    /\ UNCHANGED <<disk, tasks, format_type, success_count, quit_requested,
                   cleanup_calls, cleanup_log, com_calls, calls>>

\* lines 639-659: one task boundary; the format is read from format_var here
tk_task_begin(w, mkdir_ok) ==
    /\ pc[w] = "loop"
    /\ idx[w] <= Total(w)
    /\ IF gui_cancel_requested
       THEN /\ Schedule(w, <<StatusEv("cancelled")>>)
            /\ pc' = [pc EXCEPT ![w] = "after"]
            /\ UNCHANGED <<tasks, idx, format_type>>
       ELSE /\ Schedule(w, <<StatusEv("converting"), ProgressEv(idx[w] - 1, Total(w))>>)
            /\ IF ~mkdir_ok
               THEN /\ tasks' = [tasks EXCEPT ![w][idx[w]].status = "Failed",
                                              ![w][idx[w]].error = <<"mkdir">>]
                    /\ idx' = [idx EXCEPT ![w] = @ + 1]
                    /\ UNCHANGED <<pc, format_type>>
               ELSE /\ tasks' = [tasks EXCEPT ![w][idx[w]].status = "Running"]
                    /\ format_type' = [format_type EXCEPT ![w] = settings.format]
                    /\ pc' = [pc EXCEPT ![w] = "convert"]
                    /\ UNCHANGED idx
    /\ UNCHANGED <<TkGuiRest, is_converting, cancel_dialog, tk_vars, QtOnly>>
    /\ UNCHANGED <<disk, success_count, exc, converter_vars, engine_vars,
                   cleanup_calls, cleanup_log, com_calls, calls>>

\* HWPConverter.convert_file of the Tk version (lines 108-141): Open, one SaveAs,
\* Clear(option=1), all inside one try; then lines 666-671
tk_convert_file(w, open_ok, save_ok, clear_ok) ==
    /\ pc[w] = "convert"
    /\ LET k == idx[w]
           C(op, ok) == [task |-> k, op |-> op, ok |-> ok]
           made == IF ~open_ok THEN <<C("Open", FALSE), C("Clear", clear_ok)>>
                   ELSE IF ~save_ok
                   THEN <<C("Open", TRUE), C("SaveAs2", FALSE), C("Clear", clear_ok)>>
                   ELSE <<C("Open", TRUE), C("SaveAs2", TRUE), C("Clear", clear_ok)>>
           success == open_ok /\ save_ok /\ clear_ok
           error == IF ~open_ok THEN <<"open">>
                    ELSE IF ~save_ok THEN <<"save">> ELSE <<"clear">>
       IN /\ calls' = [calls EXCEPT ![w] = @ \o made]
          /\ disk' = IF open_ok /\ save_ok
                     THEN disk \cup {tasks[w][k].output_file} ELSE disk
          /\ tasks' = [tasks EXCEPT
                         ![w][k].status = IF success THEN "Succeeded" ELSE "Failed",
                         ![w][k].error = IF success THEN @ ELSE error]
          /\ success_count' = [success_count EXCEPT ![w] = IF success THEN @ + 1 ELSE @]
    /\ idx' = [idx EXCEPT ![w] = @ + 1]
    /\ pc' = [pc EXCEPT ![w] = "loop"]
    /\ UNCHANGED <<TkGuiRest, is_converting, cancel_dialog, tk_vars, QtOnly>>
    /\ UNCHANGED <<queue, format_type, exc, converter_vars, engine_vars, emitted,
                   cleanup_calls, cleanup_log, com_calls>>

\* lines 673-678, after the loop ended (exhausted, or left by break)
tk_after_loop(w) ==
    /\ \/ pc[w] = "after"
       \/ pc[w] = "loop" /\ idx[w] > Total(w)
    /\ Schedule(w, IF gui_cancel_requested
                   THEN <<ProgressEv(Total(w), Total(w))>>
                   ELSE <<ProgressEv(Total(w), Total(w)),
                          ResultEv(success_count[w], Total(w))>>)
    /\ pc' = [pc EXCEPT ![w] = "finally"]
    /\ UNCHANGED <<TkGuiRest, is_converting, cancel_dialog, tk_vars, QtOnly>>
    /\ UNCHANGED <<disk, tasks, format_type, idx, success_count, exc, converter_vars,
                   engine_vars, cleanup_calls, cleanup_log, com_calls, calls>>

\* lines 680-682: except Exception: _schedule_show_error
tk_except(w) ==
    /\ pc[w] = "except"
    /\ Schedule(w, <<ErrorEv(exc[w])>>)
    /\ pc' = [pc EXCEPT ![w] = "finally"]
    /\ UNCHANGED <<TkGuiRest, is_converting, cancel_dialog, tk_vars, QtOnly>>
    /\ UNCHANGED <<disk, tasks, format_type, idx, success_count, exc, converter_vars,
                   engine_vars, cleanup_calls, cleanup_log, com_calls, calls>>

\* lines 684-692: finally: converter.cleanup(), _schedule_restore_ui()
tk_finally(w) ==
    /\ pc[w] = "finally"
    /\ cleanup(w, Released)
    /\ Schedule(w, <<RestoreEv>>)
    /\ pc' = [pc EXCEPT ![w] = "reset"]
    /\ UNCHANGED <<TkGuiRest, is_converting, cancel_dialog, tk_vars, QtOnly>>
    /\ UNCHANGED <<disk, tasks, format_type, idx, success_count, exc, progid_used,
                   created, calls>>

\* line 693, the last statement of the thread: self.cancel_requested = False
tk_reset_cancel(w) ==
    /\ pc[w] = "reset"
    /\ gui_cancel_requested' = FALSE
    /\ pc' = [pc EXCEPT ![w] = "done"]
    /\ UNCHANGED <<TkGuiRest, is_converting, cancel_dialog, progress_maximum, QtOnly>>
    /\ UNCHANGED <<queue, disk, tasks, format_type, idx, success_count, exc,
                   converter_vars, engine_vars, emitted, cleanup_calls, cleanup_log,
                   com_calls, calls>>

TkFormats == {"PDF", "HWPX"}

NextTk ==
    \/ tk_start_conversion
    \/ tk_cancel_ask
    \/ \E yes \in BOOLEAN : tk_cancel_reply(yes)
    \/ \E f \in TkFormats : tk_select_format(f)
    \/ tk_dispatch
    \/ \E w \in Batches : tk_worker_begin(w)
    \/ \E w \in Batches, p \in {0, 1} : tk_initialize(w, p)
    \/ \E w \in Batches, mkdir_ok \in BOOLEAN : tk_task_begin(w, mkdir_ok)
    \/ \E w \in Batches, open_ok \in BOOLEAN :
          tk_convert_file(w, open_ok, TRUE, TRUE)
    \/ \E w \in Batches : tk_after_loop(w)
    \/ \E w \in Batches : tk_except(w)
    \/ \E w \in Batches : tk_finally(w)
    \/ \E w \in Batches : tk_reset_cancel(w)

\* the Tk window with one file in its list
InitTk ==
    /\ settings = Settings("files", "PDF", TRUE, TRUE, FALSE, <<>>, <<>>)
    /\ file_list = <<InA>>
    /\ file_set = {InA}
    /\ disk = {InA, InAx, SubA}
    /\ InitRest
    /\ InitLoaded

SpecTk == InitTk /\ [][NextTk]_vars

(***************************************************************************)
(* C24.  No step of a worker thread writes state the UI owns (the progress    *)
(* bar, the converting state and the buttons that follow it, the dialogs, the  *)
(* widgets' values, the cancel flag held on the GUI object): in a step of the  *)
(* worker all of it is unchanged, and what the worker has to say is only       *)
(* appended to the queue of the UI thread.  Stated for the Tk worker           *)
(* (_conversion_worker); the same formula holds of ConversionWorker.run.        *)
(***************************************************************************)
UiOwned ==
    <<settings, file_list, is_converting, cancel_dialog, ui_message,
      gui_cancel_requested, progress_maximum>>

\* the step is one of batch w's worker thread
OnWorkerThread(w) ==
    /\ pc[w] # "idle"
    /\ <<pc[w], idx[w], try_idx[w]>>' # <<pc[w], idx[w], try_idx[w]>>

C24_Step ==
    \A w \in Batches :
        OnWorkerThread(w) =>
            /\ UiOwned' = UiOwned
            /\ Len(queue') >= Len(queue)
            /\ SubSeq(queue', 1, Len(queue)) = queue

C24_NoDirectUiWrite == [][C24_Step]_vars

(***************************************************************************)
(* C25.  A task whose output directory cannot be created, or whose input      *)
(* file does not exist when its turn comes, is not converted: the step that    *)
(* takes it sets it Failed with a diagnostic, appends it to the failed list,   *)
(* makes no engine call and leaves the worker at the next task boundary; and   *)
(* no Open, SaveAs or Clear is ever issued for it.                              *)
(***************************************************************************)
\* the loop is at a task boundary with a task to take and the flag not set
AtBoundary(w) ==
    /\ pc[w] = "loop"
    /\ idx[w] <= Total(w)
    /\ ~cancel_requested[w]

\* this step takes the task and sets it aside: Failed without having been Running
SetAside(w) ==
    /\ AtBoundary(w)
    /\ tasks[w][idx[w]].status = "Pending"
    /\ tasks'[w][idx[w]].status = "Failed"

C25_Step ==
    \A w \in Batches :
        /\ (/\ AtBoundary(w)
            /\ OnWorkerThread(w)
            /\ tasks[w][idx[w]].input_file \notin disk
            /\ pc'[w] # "except") => SetAside(w)
        /\ SetAside(w) =>
              /\ tasks'[w][idx[w]].error \in {<<"mkdir">>, <<"not found">>}
              /\ failed_tasks'[w] = Append(failed_tasks[w], idx[w])
              /\ calls' = calls
              /\ pc'[w] = "loop"
              /\ idx'[w] = idx[w] + 1

C25_NeverConverted ==
    \A w \in Batches : \A k \in DOMAIN tasks[w] :
        tasks[w][k].error \in {<<"mkdir">>, <<"not found">>} =>
            /\ tasks[w][k].status = "Failed"
            /\ CallsOf(w, k) = <<>>
            /\ Cardinality({i \in DOMAIN failed_tasks[w] : failed_tasks[w][i] = k}) = 1

C25_SkippedTasks == []C25_NeverConverted /\ [][C25_Step]_vars

\* the first task's output folder could not be created and it was set aside; the
\* second was converted
C25_Witness ==
    /\ Len(tasks[1]) = 2
    /\ tasks[1][1].status = "Failed"
    /\ tasks[1][1].error = <<"mkdir">>
    /\ CallsOf(1, 1) = <<>>
    /\ failed_tasks[1] = <<1>>
    /\ tasks[1][2].status = "Succeeded"

(***************************************************************************)
(* Scheduling: a worker thread that can take a step eventually takes one, and *)
(* the UI thread's event loop eventually delivers the signal at the head of    *)
(* its queue.                                                                   *)
(***************************************************************************)
Fairness ==
    /\ WF_vars(ui_dispatch)
    /\ \A w \in Batches : WF_vars(WorkerStep(w, WholeSession))

SpecLive == Init /\ [][Next]_vars /\ Fairness

(***************************************************************************)
(* C26.  Every started batch terminates (every call of the session returns): *)
(* its worker goes Idle, Connecting, Running and then to exactly one of        *)
(* Completed, Cancelled, Fatal (Connecting may go to Fatal directly) and never *)
(* leaves that state; cleanup runs; the finished signal of the worker is       *)
(* queued for the UI thread and stays queued until it is handled; and the      *)
(* window's converting state returns to false.                                  *)
(***************************************************************************)
Phase(w) ==
    CASE pc[w] = "idle" -> "Idle"
      [] pc[w] \in {"start", "connect"} -> "Connecting"
      [] pc[w] \in {"loop", "open", "save2", "save3", "clear", "after"} -> "Running"
      [] exc[w] # <<>> -> "Fatal"
      [] final_cancel[w] = "set" -> "Cancelled"
      [] OTHER -> "Completed"

PhaseOrder ==
    {<<"Idle", "Connecting">>, <<"Connecting", "Running">>, <<"Connecting", "Fatal">>,
     <<"Running", "Completed">>, <<"Running", "Cancelled">>, <<"Running", "Fatal">>}

C26_Step ==
    \A w \in Batches :
        /\ Phase(w)' # Phase(w) => <<Phase(w), Phase(w)'>> \in PhaseOrder
        /\ (pc[w] = "returned" /\ pc'[w] = "done") =>
              queue' = Append(queue, [w |-> w, ev |-> FinishedEv])
        /\ \A i \in 2..Len(queue) :
              (queue[i].w = w /\ queue[i].ev.kind = "finished") =>
                  queue[i] \in SeqToSet(queue')

C26_Outcome ==
    \A w \in Batches :
        pc[w] = "done" =>
            /\ cleanup_calls[w] = 1
            /\ Phase(w) = "Completed" <=> Count(w, "completed") = 1
            /\ Phase(w) = "Fatal" <=> Count(w, "error") = 1

C26_BatchTerminates ==
    /\ []C26_Outcome
    /\ [][C26_Step]_vars
    /\ \A w \in Batches : (pc[w] = "start") ~> (pc[w] = "done")
    /\ \A w \in Batches : (pc[w] = "start") ~> (pc[w] = "done" /\ ~is_converting)

(***************************************************************************)
(* C27.  The tasks of a batch are processed one at a time in planned order:   *)
(* at most one task is Running, and it is the one the loop is at; every task   *)
(* before a Running or terminal task is Succeeded or Failed and every task     *)
(* after a Running or Pending task is Pending; the engine calls are made in    *)
(* task order, and a call for a task is made only when every earlier task is   *)
(* terminal (convert_file has returned for it or it was set aside).             *)
(***************************************************************************)
RunningTasks(w) == {i \in DOMAIN tasks[w] : tasks[w][i].status = "Running"}

C27_InOrder ==
    \A w \in Batches :
        /\ Cardinality(RunningTasks(w)) <= 1
        /\ \A i \in RunningTasks(w) : i = idx[w] /\ pc[w] \in InFlight
        /\ \A i, j \in DOMAIN tasks[w] :
              i < j =>
                  /\ tasks[w][j].status # "Pending" => Terminal(tasks[w][i])
                  /\ ~Terminal(tasks[w][i]) => tasks[w][j].status = "Pending"
        /\ \A a, b \in DOMAIN calls[w] : a < b => calls[w][a].task <= calls[w][b].task

C27_Step ==
    \A w \in Batches :
        calls'[w] # calls[w] =>
            /\ Len(calls'[w]) > Len(calls[w])
            /\ SubSeq(calls'[w], 1, Len(calls[w])) = calls[w]
            /\ \A k \in (Len(calls[w]) + 1)..Len(calls'[w]) :
                  LET c == calls'[w][k]
                  IN /\ c.task = idx[w]
                     /\ tasks[w][c.task].status = "Running"
                     /\ \A i \in 1..(c.task - 1) : Terminal(tasks[w][i])

C27_OneAtATime == []C27_InOrder /\ [][C27_Step]_vars

\* the first task is converted and the second is being saved
C27_Witness ==
    /\ Len(tasks[1]) = 2
    /\ tasks[1][1].status = "Succeeded"
    /\ tasks[1][2].status = "Running"
    /\ pc[1] = "save2"
    /\ CallsOf(1, 1) # <<>>
    /\ CallsOf(1, 2) # <<>>

(***************************************************************************)
(* C28.  Per task the engine calls are Open, then SaveAs (the 2-argument      *)
(* call, and the 3-argument call if that failed), then Clear of the document   *)
(* (a second time when the first Clear after a successful save raised):        *)
(* nothing is called before Open, SaveAs is never called when Open failed,     *)
(* nothing but Clear follows a Clear, and once convert_file has returned the   *)
(* last call is a Clear; an Open comes first or directly after a Clear of the  *)
(* previous task's document; and a call is made only on a connected converter  *)
(* on which cleanup has not been called and Quit not requested.                 *)
(***************************************************************************)
IsSave(c) == c.op \in {"SaveAs2", "SaveAs3"}

C28_TaskProtocol(L) ==
    /\ L[1].op = "Open"
    /\ \A i \in DOMAIN L :
          /\ L[i].op = "Open" => i = 1
          /\ IsSave(L[i]) => L[1].ok
          /\ L[i].op = "SaveAs2" => i = 2
          /\ L[i].op = "SaveAs3" => i = 3 /\ L[2].op = "SaveAs2" /\ ~L[2].ok
          /\ L[i].op = "Clear" =>
                /\ i > 1
                /\ \/ ~L[1].ok /\ i = 2
                   \/ IsSave(L[i - 1]) /\ (L[i - 1].ok \/ L[i - 1].op = "SaveAs3")
                   \/ /\ L[i - 1].op = "Clear" /\ ~L[i - 1].ok
                      /\ i > 2 /\ IsSave(L[i - 2]) /\ L[i - 2].ok
          /\ (i > 1 /\ L[i - 1].op = "Clear") => L[i].op = "Clear"

C28_Calls ==
    \A w \in Batches :
        /\ \A k \in DOMAIN tasks[w] :
              LET L == CallsOf(w, k) IN
              L # <<>> =>
                  /\ C28_TaskProtocol(L)
                  /\ Returned(w, k) => L[Len(L)].op = "Clear"
        /\ \A b \in DOMAIN calls[w] :
              calls[w][b].op = "Open" =>
                  \/ b = 1
                  \/ calls[w][b - 1].op = "Clear" /\ calls[w][b - 1].task < calls[w][b].task
        /\ calls[w] # <<>> => ConnectSucceeded(w)

C28_Step ==
    \A w \in Batches :
        calls'[w] # calls[w] =>
            /\ is_initialized[w]
            /\ hwp[w] # 0
            /\ cleanup_calls[w] = 0
            /\ HandlesOf(w) \cap quit_requested = {}

C28_OpenSaveClose == []C28_Calls /\ [][C28_Step]_vars

\* the first task was saved by the 3-argument call and closed, and the second
\* task's document is open
C28_Witness ==
    /\ Len(calls[1]) = 5
    /\ calls[1][3].op = "SaveAs3"
    /\ calls[1][3].ok
    /\ calls[1][4].op = "Clear"
    /\ calls[1][5] = [task |-> 2, op |-> "Open", ok |-> TRUE]

(***************************************************************************)
(* Releasing the engine.  A batch in which each of the calls of             *)
(* HWPConverter.cleanup may raise, after a connection that succeeded, that   *)
(* failed at Dispatch or that failed while the new object was configured.    *)
(***************************************************************************)
ReleaseSession ==
    [batches |-> 1, payloads |-> {<<InA>>},
     coinit |-> {TRUE}, adapter_coinit |-> {TRUE}, init |-> InitOutcomes,
     mkdir |-> {TRUE}, exists |-> {"query"},
     open |-> BOOLEAN, save2 |-> BOOLEAN, save3 |-> {TRUE}, clear |-> {TRUE},
     release |-> ReleaseOutcomes]

NextRelease == Program(ReleaseSession)

SpecRelease == InitBatch /\ [][NextRelease]_vars

\* the calls a step added to the log of cleanup, by name
CleanupOps(w) ==
    LET before == Len(cleanup_log[w])
        after == Len(cleanup_log'[w])
    IN [i \in 1..(after - before) |-> cleanup_log'[w][before + i].op]

\* C29: cleanup() is best effort and complete.  Whatever Clear(3), Quit and
\* CoUninitialize do, on a connected adapter all three are called, in this
\* order, and cleanup returns; afterwards the adapter holds no handle and
\* reports not-initialized; on an adapter that never connected cleanup calls
\* neither Clear nor Quit.
C29_Step ==
    \A w \in Batches :
        cleanup_calls'[w] # cleanup_calls[w] =>
            /\ pc'[w] = "returned"
            /\ is_initialized[w] =>
                   CleanupOps(w) = <<"Clear(3)", "Quit", "CoUninitialize">>
            /\ hwp'[w] = 0
            /\ ~is_initialized'[w]
            /\ ~is_initialized[w] =>
                   /\ CleanupOps(w) = <<"CoUninitialize">>
                   /\ quit_requested' = quit_requested

C29_CleanupReleases == [][C29_Step]_vars

(***************************************************************************)
(* C30.  For every drop notification handled the drop handle is released     *)
(* exactly once: the calls on the handle are the count query, then one query  *)
(* for each path index in order, then DragFinish as the last call (so no       *)
(* query follows the release), also when a query on the handle fails.          *)
(***************************************************************************)
C30_ReleasedOnce ==
    drop_log # <<>> =>
        LET n == Len(drop_log)
            count == drop_log[1].ret
            IsFinish(c) == c.op = "DragFinish"
        IN /\ Len(SelectSeq(drop_log, IsFinish)) = 1
           /\ drop_log[n].op = "DragFinish"
           /\ drop_log[1].op = "DragQueryFileW" /\ drop_log[1].index = -1
           /\ n = count + 2
           /\ \A i \in 1..count :
                 drop_log[i + 1].op = "DragQueryFileW" /\ drop_log[i + 1].index = i

(***************************************************************************)
(* Editing the pending file list: _add_files, _remove_selected and          *)
(* _clear_all, none of which is disabled while a batch is running.           *)
(***************************************************************************)
\* the list without the rows of the set rows
RemoveRows(list, rows) ==
    LET Kept(i) == i \notin rows
        kept == SelectSeq([i \in 1..Len(list) |-> i], Kept)
    IN [k \in 1..Len(kept) |-> list[kept[k]]]

ListFrame ==
    /\ UNCHANGED <<settings, config, is_converting, worker, ui_tasks, cancel_dialog,
                   ui_message, next_batch, window_vars, config_vars, tk_vars, drop_log>>
    /\ UNCHANGED <<queue, connected, disk, worker_vars, converter_vars, engine_vars,
                   history_vars>>

\* variant of remove_selected on a task list that shares the rows of the file list
remove_selected_shared(rows) ==
    /\ ~cancel_dialog
    /\ rows # {}
    /\ file_list' = RemoveRows(file_list, rows)
    /\ file_set' = file_set \ {file_list[r] : r \in rows}
    /\ tasks' = [w \in Batches |-> RemoveRows(tasks[w], rows)]
    /\ UNCHANGED <<settings, config, is_converting, worker, ui_tasks, cancel_dialog,
                   ui_message, next_batch, window_vars, config_vars, tk_vars, drop_log>>
    /\ UNCHANGED <<queue, connected, disk, pc, cancel_requested, format_type,
                   com_initialized, idx, success_count, failed_tasks, conv_err, exc,
                   converter_vars, engine_vars, history_vars>>

\* _remove_selected: the selected rows of the table, from the last to the first;
\* the path of each removed row is discarded from the duplicate-check set
remove_selected(rows) ==
    /\ ~cancel_dialog
    /\ rows # {}
    /\ file_list' = RemoveRows(file_list, rows)
    /\ file_set' = file_set \ {file_list[r] : r \in rows}
    /\ ListFrame

\* _clear_all: nothing on an empty list; else a confirmation box, and on Yes the
\* list and the set are emptied
clear_all(yes) ==
    /\ ~cancel_dialog
    /\ file_list # <<>>
    /\ file_list' = IF yes THEN <<>> ELSE file_list
    /\ file_set' = IF yes THEN {} ELSE file_set
    /\ ListFrame

\* one batch; a file dialog or a drop may name a path twice
ListSession ==
    [batches |-> 1, payloads |-> Payloads \cup {<<InAx, InAx>>},
     coinit |-> {TRUE}, adapter_coinit |-> {TRUE}, init |-> {"dispatch_fail", "ok"},
     mkdir |-> {TRUE}, exists |-> {"query"},
     open |-> {TRUE}, save2 |-> BOOLEAN, save3 |-> {TRUE}, clear |-> {TRUE},
     release |-> {Released}]

NextList ==
    \/ Program(ListSession)
    \/ \E rows \in SUBSET (1..Len(file_list)) : remove_selected(rows)
    \/ \E yes \in BOOLEAN : clear_all(yes)

SpecList == Init /\ [][NextList]_vars

(***************************************************************************)
(* C31.  A step that changes the pending file list or its duplicate-check    *)
(* set (adding, removing, clearing) leaves every batch untouched: the          *)
(* worker's task list with each task's input and output path, and the          *)
(* batch's target format.                                                      *)
(***************************************************************************)
C31_Step ==
    (file_list' # file_list \/ file_set' # file_set) =>
        /\ tasks' = tasks
        /\ format_type' = format_type
        /\ pc' = pc

C31_ListEditsLeaveBatch == [][C31_Step]_vars

\* the list was emptied while the batch planned from it is converting
C31_Witness ==
    /\ pc[1] \in InFlight
    /\ Len(tasks[1]) = 2
    /\ file_list = <<>>

(***************************************************************************)
(* C34.  After any sequence of add-files, remove-selected and clear-all      *)
(* operations the pending file list holds no path twice and the                *)
(* duplicate-check set is the set of the paths in the list.                    *)
(***************************************************************************)
C34_ListHasNoDuplicates ==
    /\ \A i, j \in DOMAIN file_list : i # j => file_list[i] # file_list[j]
    /\ file_set = SeqToSet(file_list)

(***************************************************************************)
(* C32.  Every batch starts with its cancellation flag clear (the flag of    *)
(* its ConversionWorker in the PyQt version, the flag of the GUI object in     *)
(* the Tk version), so a cancel confirmed after the worker left its task       *)
(* loop never cancels a later batch; and a flag is raised only by a            *)
(* confirmation.                                                               *)
(***************************************************************************)
C32_Step ==
    /\ \A w \in Batches :
          (pc[w] = "idle" /\ pc'[w] # "idle") =>
              /\ ~cancel_requested'[w]
              /\ ~gui_cancel_requested'
    /\ \A w \in Batches :
          (~cancel_requested[w] /\ cancel_requested'[w]) => (cancel_dialog /\ worker = w)
    /\ (~gui_cancel_requested /\ gui_cancel_requested') => cancel_dialog

C32_CancelStaysInBatch == [][C32_Step]_vars

(***************************************************************************)
(* C33.  Every SaveAs of a batch is made with the format the batch was       *)
(* planned with: the format whose engine code is passed to SaveAs is the       *)
(* format whose extension the task's output path has, even if the user         *)
(* changes the format selection while the batch is running.                    *)
(***************************************************************************)
C33_Step ==
    \A w \in Batches :
        \A k \in (Len(calls[w]) + 1)..Len(calls'[w]) :
            LET c == calls'[w][k]
            IN c.op \in {"SaveAs2", "SaveAs3"} =>
                   FORMAT_TYPES[format_type[w]].ext = tasks[w][c.task].output_file.ext

C33_SavedInPlannedFormat == [][C33_Step]_vars

(***************************************************************************)
(* C35.  No planned task has an output path equal to its own input path,     *)
(* whatever the mode, the target format, the same-location box and the         *)
(* overwrite box: a conversion never writes over its own source file.          *)
(***************************************************************************)
C35_OutputIsNotInput ==
    \A w \in Batches :
        \A i \in DOMAIN tasks[w] : tasks[w][i].output_file # tasks[w][i].input_file

(***************************************************************************)
(* C36.  The progress events of a batch carry a non-decreasing current       *)
(* index with 0 <= current <= total, and the index never exceeds the number    *)
(* of tasks that are Succeeded or Failed when the event is emitted, the final  *)
(* progress event after a cancelled loop included.                             *)
(***************************************************************************)
C36_Step ==
    \A w \in Batches :
        \A k \in (Len(emitted[w]) + 1)..Len(emitted'[w]) :
            LET e == emitted'[w][k]
            IN e.kind = "progress" =>
                   /\ 0 <= e.cur /\ e.cur <= e.total
                   /\ e.total = Total(w)
                   /\ e.cur <= TerminalCount(w)
                   /\ \A j \in 1..(k - 1) :
                         emitted'[w][j].kind = "progress" => emitted'[w][j].cur <= e.cur

C36_ProgressFollowsTasks == [][C36_Step]_vars

(***************************************************************************)
(* C37.  Whenever a completion event is emitted its success count is the     *)
(* number of tasks with status Succeeded, its failed list holds exactly the    *)
(* tasks with status Failed, each once and in planned order, its total is the  *)
(* number of planned tasks, and no task of the batch is Pending or Running.    *)
(***************************************************************************)
WithStatus(w, status) ==
    LET Has(i) == tasks[w][i].status = status
    IN SelectSeq([i \in 1..Len(tasks[w]) |-> i], Has)

C37_Step ==
    \A w \in Batches :
        \A k \in (Len(emitted[w]) + 1)..Len(emitted'[w]) :
            LET e == emitted'[w][k]
            IN e.kind = "completed" =>
                   /\ e.succ = Len(WithStatus(w, "Succeeded"))
                   /\ e.failed = WithStatus(w, "Failed")
                   /\ e.total = Len(tasks[w])
                   /\ \A i \in DOMAIN tasks[w] : Terminal(tasks[w][i])
                   /\ tasks' = tasks

C37_CompletionMatchesTasks == [][C37_Step]_vars

\* a batch of two tasks completed with one file converted and one failed
C37_Witness ==
    /\ Count(1, "completed") = 1
    /\ Len(tasks[1]) = 2
    /\ success_count[1] = 1
    /\ Len(failed_tasks[1]) = 1

(***************************************************************************)
(* The automation runtime on the worker thread.  A batch in which each       *)
(* CoInitialize and each CoUninitialize may raise, with every outcome of the   *)
(* connection.                                                                 *)
(***************************************************************************)
ComSession ==
    [batches |-> 1, payloads |-> {<<InA>>},
     coinit |-> BOOLEAN, adapter_coinit |-> BOOLEAN, init |-> InitOutcomes,
     mkdir |-> {TRUE}, exists |-> {"query"},
     open |-> BOOLEAN, save2 |-> BOOLEAN, save3 |-> {TRUE}, clear |-> {TRUE},
     release |-> [clear : {TRUE}, quit : {TRUE}, uninit : BOOLEAN, run_uninit : BOOLEAN]]

NextCom == Program(ComSession)

SpecCom == Init /\ [][NextCom]_vars

\* the calls of one kind in com_calls
ComCalls(w, op) ==
    LET Is(c) == c.op = op
    IN SelectSeq(com_calls[w], Is)

Successful(s) ==
    LET Ok(c) == c.ok
    IN SelectSeq(s, Ok)

(***************************************************************************)
(* C38.  When the worker has finished, the number of CoUninitialize calls    *)
(* made on its thread equals the number of successful CoInitialize calls made  *)
(* by run() and by the adapter together, on every exit path.                   *)
(***************************************************************************)
C38_RuntimeBalanced ==
    \A w \in Batches :
        pc[w] \in {"returned", "done"} =>
            Len(ComCalls(w, "CoUninitialize"))
                = Len(Successful(ComCalls(w, "CoInitialize")))

====
